---- MODULE Spec2Model ----
(***************************************************************************)
(* Model of the process-supervision and bridging subsystem of             *)
(* CLIAIRMONITOR: the Bridge of src/internal/aider/bridge.go lines 1-337   *)
(* and the Spawner (Supervisor) of lines 338-653.                          *)
(*                                                                         *)
(* Every goroutine of the program is a process of the model: the callers   *)
(* of SpawnAgent / StopAgent / StopAll, the liveness poller                *)
(* (monitorAgents), the cmd.Wait goroutine of StopAgent, the stdout reader *)
(* of a Bridge, and the OS process of each agent.  A blocking lock         *)
(* acquisition is an action that is enabled only when the lock is free.    *)
(*                                                                         *)
(* NewBridge receives s.natsConn (line 444): every Bridge and the Spawner  *)
(* publish on the same bus connection, which Bridge.Stop closes            *)
(* (lines 106-109, and Client.Close of internal/nats/client.go:61-65).     *)
(*                                                                         *)
(* The specifications share the definitions.  Spec is the Supervisor: its  *)
(* operations interleave step by step, and the Bridge operations they call *)
(* (Start, Stop) are taken whole; FairSpec adds the scheduling.  CallSpec  *)
(* is the Supervisor with callers that record what SpawnAgent, StopAgent,  *)
(* ListAgents and GetAgent return.  BridgeSpec is one Bridge driven        *)
(* through its own API, with Start, Stop, the stdout reader and the        *)
(* command handler taken step by step.  IOSpec is a started Bridge with    *)
(* its stdout and stderr readers and every kind of command; CmdSpec is a   *)
(* started Bridge whose handled commands are recorded.  ClassifySpec       *)
(* applies the output classifier to lines built from fragments.  TaskSpec  *)
(* is the task queue of the operational store (src/unnamed/part_003,       *)
(* lines 299-422).  StopRaceSpec is two goroutines calling Stop on one     *)
(* Bridge, and StatusRaceSpec the status updates of the readers and the    *)
(* command handler of one Bridge, both statement by statement.             *)
(* ShutdownSpec is Spec with a further call of StopAll.                    *)
(***************************************************************************)
EXTENDS Integers, Sequences, FiniteSets, TLC

\* Number of agent IDs SpawnAgent hands out (uuid-derived, modelled as fresh).
MaxAgents == 2

\* Number of direct Bridge.Stop() calls made on the Bridge of BridgeSpec.
MaxStopCalls == 2

IDs == 1..MaxAgents

VARIABLES
    agents,       \* Spawner.agents: the live set (its keys)
    mu,           \* Spawner.mu: "free", or "check" while checkAgents holds it
    stopCh,       \* Spawner.stopCh is closed
    natsClosed,   \* the bus connection shared by Spawner and Bridges is closed
    nextID,       \* number of agent IDs generated so far
    monitorPc,    \* monitorAgents: "idle" | "scan" | "crashed" | "exited"
    toCheck,      \* checkAgents: entries of the range loop not yet visited
    cur,          \* checkAgents: the entry being crash-handled (0: none)
    stopAllPc,    \* StopAll: "idle" | "snap" | "wait" | "returned"
    allPending,   \* StopAll: tasks that have not yet called StopAgent
    proc,         \* OS process: "none" | "running" | "exited" | "reaped"
    stopPc,       \* the StopAgent call that removed the agent: its position
    stopBy,       \* who made that call: "none" | "http" | "all"
    done,         \* StopAgent's done channel holds the result of cmd.Wait()
    expired,      \* StopAgent: number of time.After timers that fired
    sigs,         \* signals the Spawner sent to the process, in order
    removedBy,    \* who deleted the agent: "none" | "stop" | "crash"
    crashCalls,   \* number of publishCrash calls for the agent
    startPc,      \* Bridge.Start: "none"|"new"|"launched"|"marked"|"started"|"failed"
    bstop,        \* Bridge.Stop past its guard: "none" | "torn" | "pub" | "done"
    bStopCh,      \* Bridge.stopCh is closed
    connected,    \* Bridge.connected
    status,       \* Bridge.status
    currentTask,  \* Bridge.currentTask
    outPc,        \* parseAiderOutput: "none"|"scan"|"eof"|"ended"|"returned"
    sawEnd,       \* parseAiderOutput has seen the end of stdout (EOF or error)
    stdinLog,     \* lines that reached the subprocess stdin
    closes,       \* number of times Stop closed the stdio handles
    stopCalls,    \* number of Bridge.Stop() invocations
    apiStops,     \* number of direct Stop() calls made in BridgeSpec
    nread,        \* number of stdout lines parseAiderOutput has processed
    outputs,      \* messages delivered on agent.<id>.output, in order
    published,    \* messages delivered on agent.<id>.status, in order
    ret,          \* what the last observed call returned (<<>>: none)
    tasks,        \* the rows of the operational store's tasks table, by id
    stopperPc,    \* concurrent callers of Bridge.Stop(): where each one is
    pend,         \* per goroutine: the status it recorded and has yet to publish
    all2Pc        \* a further StopAll() call: "idle"|"panicked"

supVars == <<agents, mu, stopCh, nextID, monitorPc, toCheck, cur, stopAllPc,
             allPending>>
agentVars == <<proc, stopPc, stopBy, done, expired, sigs, removedBy,
               crashCalls>>
bridgeVars == <<startPc, bstop, bStopCh, connected, status, currentTask, outPc,
                sawEnd, stdinLog, closes, stopCalls, apiStops, nread, outputs>>
concVars == <<stopperPc, pend, all2Pc>>
progVars == <<supVars, agentVars, bridgeVars, natsClosed, published, concVars>>
vars == <<progVars, ret, tasks>>

\* Number of task ids of the operational store.
MaxTasks == 2

\* The callers that invoke Stop() on one Bridge at the same time.
Stoppers == {"first", "second"}

\* The goroutines of a Bridge that call publishStatus: the stdout reader,
\* the stderr reader and the subscription's command handler.
Threads == {"stdout", "stderr", "cmd"}

\* Task ids, and the value of an id without a row in the tasks table.
TaskIDs == 1..MaxTasks
NoTask == [present |-> FALSE, status |-> "", assigned_to |-> "",
           progress |-> "", summary |-> "", completed_at |-> "null"]

----------------------------------------------------------------------------
(* Construction *)

\* NewSpawner: empty live set, open stop channel, poller goroutine started.
\* No agent exists yet, so every per-agent field has its "none" value.
Init ==
    /\ agents = {}
    /\ mu = "free"
    /\ stopCh = FALSE
    /\ natsClosed = FALSE
    /\ nextID = 0
    /\ monitorPc = "idle"
    /\ toCheck = {}
    /\ cur = 0
    /\ stopAllPc = "idle"
    /\ allPending = {}
    /\ proc = [i \in IDs |-> "none"]
    /\ stopPc = [i \in IDs |-> "idle"]
    /\ stopBy = [i \in IDs |-> "none"]
    /\ done = [i \in IDs |-> FALSE]
    /\ expired = [i \in IDs |-> 0]
    /\ sigs = [i \in IDs |-> <<>>]
    /\ removedBy = [i \in IDs |-> "none"]
    /\ crashCalls = [i \in IDs |-> 0]
    /\ startPc = [i \in IDs |-> "none"]
    /\ bstop = [i \in IDs |-> "none"]
    /\ bStopCh = [i \in IDs |-> FALSE]
    /\ connected = [i \in IDs |-> FALSE]
    /\ status = [i \in IDs |-> "none"]
    /\ currentTask = [i \in IDs |-> ""]
    /\ outPc = [i \in IDs |-> "none"]
    /\ sawEnd = [i \in IDs |-> FALSE]
    /\ stdinLog = [i \in IDs |-> <<>>]
    /\ closes = [i \in IDs |-> 0]
    /\ stopCalls = [i \in IDs |-> 0]
    /\ apiStops = 0
    /\ nread = [i \in IDs |-> 0]
    /\ outputs = [i \in IDs |-> <<>>]
    /\ published = [i \in IDs |-> <<>>]
    /\ ret = <<>>
    /\ tasks = [id \in TaskIDs |-> NoTask]
    /\ stopperPc = [c \in Stoppers |-> "idle"]
    /\ pend = [t \in Threads |-> <<>>]
    /\ all2Pc = "idle"

----------------------------------------------------------------------------
(* Output classifier: Bridge.parseAiderLine *)

\* Number of stdout lines the reader of a Bridge processes in BridgeSpec.
MaxLines == 2

\* The stdout lines the subprocess emits in BridgeSpec.
Lines == {"Thinking...", "> ", "some unrelated text", "Error: boom"}

\* The characters of a line.
chars(line) ==
    CASE line = "" -> <<>>
      [] line = "Thinking..." -> <<"T", "h", "i", "n", "k", "i", "n", "g", ".", ".", ".">>
      [] line = "> " -> <<">", " ">>
      [] line = "some unrelated text" -> <<"s", "o", "m", "e", " ", "u", "n", "r", "e", "l", "a", "t", "e", "d", " ", "t", "e", "x", "t">>
      [] line = "Error: boom" -> <<"E", "r", "r", "o", "r", ":", " ", "b", "o", "o", "m">>

\* strings.ToLower on ASCII letters.
upperLetters ==
    <<"A", "B", "C", "D", "E", "F", "G", "H", "I", "J", "K", "L", "M",
      "N", "O", "P", "Q", "R", "S", "T", "U", "V", "W", "X", "Y", "Z">>

lowerLetters ==
    <<"a", "b", "c", "d", "e", "f", "g", "h", "i", "j", "k", "l", "m",
      "n", "o", "p", "q", "r", "s", "t", "u", "v", "w", "x", "y", "z">>

lowerChar(c) ==
    IF \E i \in 1..Len(upperLetters) : upperLetters[i] = c
    THEN lowerLetters[CHOOSE i \in 1..Len(upperLetters) : upperLetters[i] = c]
    ELSE c

ToLower(s) == [i \in 1..Len(s) |-> lowerChar(s[i])]

\* strings.Contains
Contains(s, sub) ==
    \E i \in 1..(Len(s) - Len(sub) + 1) : SubSeq(s, i, i + Len(sub) - 1) = sub

\* strings.TrimSpace followed by strings.HasPrefix(trimmed, ">"): the first
\* character that is not white space is ">".
TrimmedHasPrefixGT(s) ==
    \E i \in 1..Len(s) :
        /\ s[i] = ">"
        /\ \A j \in 1..(i - 1) : s[j] \in {" ", "\t"}

\* parseAiderLine with the cases "error" and "thinking" exchanged.
classifyChars_errorFirst(s, line) ==
    LET lower == ToLower(s) IN
    IF Contains(lower, <<"e", "r", "r", "o", "r">>)
    THEN <<"error", line>>
    ELSE IF Contains(lower, <<"a", "p", "p", "l", "i", "e", "d", " ", "e", "d", "i", "t">>)
    THEN <<"working", "Applied edit to files">>
    ELSE IF TrimmedHasPrefixGT(s)
    THEN <<"idle", "Awaiting prompt">>
    ELSE IF Contains(lower, <<"t", "h", "i", "n", "k", "i", "n", "g">>)
    THEN <<"working", "Thinking...">>
    ELSE IF Contains(lower, <<"c", "o", "m", "m", "i", "t">>)
    THEN <<"working", "Committing changes">>
    ELSE IF Contains(lower, <<"a", "d", "d", "e", "d">>)
    THEN <<"working", "Adding files to context">>
    ELSE IF Contains(lower, <<"s", "e", "a", "r", "c", "h", "i", "n", "g">>)
    THEN <<"working", "Searching codebase">>
    ELSE IF Contains(lower, <<"r", "e", "a", "d", "i", "n", "g">>)
    THEN <<"working", "Reading files">>
    ELSE <<>>

\* parseAiderLine, lines 168-210, on the characters s of the line: the
\* (status, task) of the first case of the switch that matches, in the order
\* of the source, or <<>> when the default case returns (line 209).
classifyChars(s, line) ==
    LET lower == ToLower(s) IN
    IF Contains(lower, <<"t", "h", "i", "n", "k", "i", "n", "g">>)
    THEN <<"working", "Thinking...">>
    ELSE IF Contains(lower, <<"a", "p", "p", "l", "i", "e", "d", " ", "e", "d", "i", "t">>)
    THEN <<"working", "Applied edit to files">>
    ELSE IF TrimmedHasPrefixGT(s)
    THEN <<"idle", "Awaiting prompt">>
    ELSE IF Contains(lower, <<"e", "r", "r", "o", "r">>)
    THEN <<"error", line>>
    ELSE IF Contains(lower, <<"c", "o", "m", "m", "i", "t">>)
    THEN <<"working", "Committing changes">>
    ELSE IF Contains(lower, <<"a", "d", "d", "e", "d">>)
    THEN <<"working", "Adding files to context">>
    ELSE IF Contains(lower, <<"s", "e", "a", "r", "c", "h", "i", "n", "g">>)
    THEN <<"working", "Searching codebase">>
    ELSE IF Contains(lower, <<"r", "e", "a", "d", "i", "n", "g">>)
    THEN <<"working", "Reading files">>
    ELSE <<>>

\* parseAiderLine on a line of the subprocess.
classify(line) == classifyChars(chars(line), line)

----------------------------------------------------------------------------
(* Bridge *)

\* publishStatus: record the pair under b.mu, then publish it on
\* agent.<id>.status; PublishJSON on a closed connection returns an error
\* that is only logged, so nothing is delivered.
publishStatus(id, st, tk) ==
    /\ status' = [status EXCEPT ![id] = st]
    /\ currentTask' = [currentTask EXCEPT ![id] = tk]
    /\ published' = IF natsClosed
                    THEN published
                    ELSE [published EXCEPT ![id] = Append(@, <<st, tk>>)]

\* fmt.Fprintln(b.stdin, line): the line reaches the subprocess only while
\* the handle is open and the process still reads its end of the pipe.
stdinWrite(id, line) ==
    IF closes[id] = 0 /\ proc[id] = "running"
    THEN [stdinLog EXCEPT ![id] = Append(@, line)]
    ELSE stdinLog

\* Bridge.Start taken whole (lines 51-74), on the Bridge NewBridge made:
\* Subscribe fails on a closed connection and Start returns the error with
\* the Bridge left as constructed; otherwise the readers are launched, the
\* Bridge is marked connected and "connected" is published.
Start(id) ==
    IF natsClosed
    THEN /\ startPc' = [startPc EXCEPT ![id] = "failed"]
         /\ status' = [status EXCEPT ![id] = "starting"]
         /\ UNCHANGED <<connected, currentTask, outPc, published>>
    ELSE /\ startPc' = [startPc EXCEPT ![id] = "started"]
         /\ outPc' = [outPc EXCEPT ![id] = "scan"]
         /\ connected' = [connected EXCEPT ![id] = TRUE]
         /\ publishStatus(id, "connected", "Aider ready")

\* Bridge.Start, lines 52-61: subscribe to the command subject (fails on a
\* closed connection, and Start returns the error), then launch the readers.
StartSubscribe(id) ==
    /\ startPc[id] = "new"
    /\ IF natsClosed
       THEN /\ startPc' = [startPc EXCEPT ![id] = "failed"]
            /\ outPc' = outPc
       ELSE /\ startPc' = [startPc EXCEPT ![id] = "launched"]
            /\ outPc' = [outPc EXCEPT ![id] = "scan"]
    /\ UNCHANGED <<supVars, agentVars, natsClosed, published, bstop, bStopCh,
                   connected, status, currentTask, sawEnd, stdinLog, closes,
                   stopCalls, apiStops,
                   nread, outputs, ret, tasks, concVars>>

\* Bridge.Start, lines 63-68: mark the bridge connected.
StartMark(id) ==
    /\ startPc[id] = "launched"
    /\ startPc' = [startPc EXCEPT ![id] = "marked"]
    /\ connected' = [connected EXCEPT ![id] = TRUE]
    /\ status' = [status EXCEPT ![id] = "connected"]
    /\ currentTask' = [currentTask EXCEPT ![id] = "Aider ready"]
    /\ UNCHANGED <<supVars, agentVars, natsClosed, published, bstop, bStopCh,
                   outPc, sawEnd, stdinLog, closes, stopCalls, apiStops,
                   nread, outputs, ret, tasks, concVars>>

\* Bridge.Start, lines 70-73: publish the initial status and return nil.
StartPublish(id) ==
    /\ startPc[id] = "marked"
    /\ startPc' = [startPc EXCEPT ![id] = "started"]
    /\ publishStatus(id, "connected", "Aider ready")
    /\ UNCHANGED <<supVars, agentVars, natsClosed, bstop, bStopCh, connected,
                   outPc, sawEnd, stdinLog, closes, stopCalls, apiStops,
                   nread, outputs, ret, tasks, concVars>>

\* Bridge.Stop taken whole (lines 77-112): a closed stopCh makes the call
\* return at once; otherwise close it, clear connected, write "/quit" to
\* stdin, close the three handles, publish "disconnected" and close the bus
\* client.
Stop(id) ==
    /\ stopCalls' = [stopCalls EXCEPT ![id] = @ + 1]
    /\ IF bStopCh[id]
       THEN UNCHANGED <<bstop, bStopCh, connected, stdinLog, closes, status,
                        currentTask, published, natsClosed>>
       ELSE /\ bstop' = [bstop EXCEPT ![id] = "done"]
            /\ bStopCh' = [bStopCh EXCEPT ![id] = TRUE]
            /\ connected' = [connected EXCEPT ![id] = FALSE]
            /\ stdinLog' = stdinWrite(id, "/quit")
            /\ closes' = [closes EXCEPT ![id] = @ + 1]
            /\ publishStatus(id, "disconnected", "Bridge stopped")
            /\ natsClosed' = TRUE

\* Stop without the stopCh test of lines 78-84: every call tears down.
StopTeardown_unguarded(id) ==
    /\ stopCalls' = [stopCalls EXCEPT ![id] = @ + 1]
    /\ bstop' = [bstop EXCEPT ![id] = "torn"]
    /\ bStopCh' = [bStopCh EXCEPT ![id] = TRUE]
    /\ connected' = [connected EXCEPT ![id] = FALSE]
    /\ stdinLog' = stdinWrite(id, "/quit")
    /\ closes' = [closes EXCEPT ![id] = @ + 1]

\* Bridge.Stop, lines 78-102, as executed by its caller: a closed stopCh makes
\* the call return at once; otherwise close it, clear connected, write "/quit"
\* to stdin and close the three handles.
StopTeardown(id) ==
    /\ stopCalls' = [stopCalls EXCEPT ![id] = @ + 1]
    /\ IF bStopCh[id]
       THEN UNCHANGED <<bstop, bStopCh, connected, stdinLog, closes>>
       ELSE /\ bstop' = [bstop EXCEPT ![id] = "torn"]
            /\ bStopCh' = [bStopCh EXCEPT ![id] = TRUE]
            /\ connected' = [connected EXCEPT ![id] = FALSE]
            /\ stdinLog' = stdinWrite(id, "/quit")
            /\ closes' = [closes EXCEPT ![id] = @ + 1]

\* Bridge.Stop, line 104: publish the "disconnected" status.
StopPublish(id) ==
    /\ bstop[id] = "torn"
    /\ bstop' = [bstop EXCEPT ![id] = "pub"]
    /\ publishStatus(id, "disconnected", "Bridge stopped")
    /\ UNCHANGED <<supVars, agentVars, natsClosed, startPc, bStopCh, connected,
                   outPc, sawEnd, stdinLog, closes, stopCalls, apiStops,
                   nread, outputs, ret, tasks, concVars>>

\* Bridge.Stop, lines 106-112: close the bus client and return.
StopCloseBus(id) ==
    /\ bstop[id] = "pub"
    /\ bstop' = [bstop EXCEPT ![id] = "done"]
    /\ natsClosed' = TRUE
    /\ UNCHANGED <<supVars, agentVars, published, startPc, bStopCh, connected,
                   status, currentTask, outPc, sawEnd, stdinLog, closes,
                   stopCalls, apiStops,
                   nread, outputs, ret, tasks, concVars>>

\* publishOutput, lines 294-304: publish the raw line on agent.<id>.output.
publishOutput(id, stream, line) ==
    outputs' = IF natsClosed
               THEN outputs
               ELSE [outputs EXCEPT ![id] = Append(@, <<stream, line>>)]

\* The reader without line 128 for lines parseAiderLine does not classify:
\* only classified lines are published as output.
OutLine_classifiedOnly(id, line) ==
    /\ outPc[id] = "scan"
    /\ ~bStopCh[id]
    /\ closes[id] = 0
    /\ nread[id] < MaxLines
    /\ nread' = [nread EXCEPT ![id] = @ + 1]
    /\ IF classify(line) = <<>>
       THEN UNCHANGED <<status, currentTask, published, outputs>>
       ELSE /\ publishStatus(id, classify(line)[1], classify(line)[2])
            /\ publishOutput(id, "stdout", line)
    /\ UNCHANGED <<supVars, agentVars, natsClosed, startPc, bstop, bStopCh,
                   connected, outPc, sawEnd, stdinLog, closes, stopCalls,
                   apiStops, ret, tasks, concVars>>

\* The reader with a classifier whose default case resets the Bridge to
\* idle (no return at line 209).
OutLine_defaultIdle(id, line) ==
    /\ outPc[id] = "scan"
    /\ ~bStopCh[id]
    /\ closes[id] = 0
    /\ nread[id] < MaxLines
    /\ nread' = [nread EXCEPT ![id] = @ + 1]
    /\ IF classify(line) = <<>>
       THEN publishStatus(id, "idle", "")
       ELSE publishStatus(id, classify(line)[1], classify(line)[2])
    /\ publishOutput(id, "stdout", line)
    /\ UNCHANGED <<supVars, agentVars, natsClosed, startPc, bstop, bStopCh,
                   connected, outPc, sawEnd, stdinLog, closes, stopCalls,
                   apiStops, ret, tasks, concVars>>

\* parseAiderOutput, lines 117-129: a line is scanned while stopCh is open;
\* parseAiderLine records and publishes the classified status, if any
\* (lines 212-218), then the raw line is published.
OutLine(id, line) ==
    /\ outPc[id] = "scan"
    /\ ~bStopCh[id]
    /\ closes[id] = 0
    /\ nread[id] < MaxLines
    /\ nread' = [nread EXCEPT ![id] = @ + 1]
    /\ IF classify(line) = <<>>
       THEN UNCHANGED <<status, currentTask, published>>
       ELSE publishStatus(id, classify(line)[1], classify(line)[2])
    /\ publishOutput(id, "stdout", line)
    /\ UNCHANGED <<supVars, agentVars, natsClosed, startPc, bstop, bStopCh,
                   connected, outPc, sawEnd, stdinLog, closes, stopCalls,
                   apiStops, ret, tasks, concVars>>

\* parseAiderOutput, lines 117 and 131-138: scanner.Scan() returns false (the
\* process closed its end by exiting, or Stop closed the handle: EOF and read
\* error take the same path) and the reader clears connected.
OutScanEnd(id) ==
    /\ outPc[id] = "scan"
    /\ proc[id] # "running" \/ closes[id] > 0
    /\ outPc' = [outPc EXCEPT ![id] = "eof"]
    /\ sawEnd' = [sawEnd EXCEPT ![id] = TRUE]
    /\ connected' = [connected EXCEPT ![id] = FALSE]
    /\ UNCHANGED <<supVars, agentVars, natsClosed, published, startPc, bstop,
                   bStopCh, status, currentTask, stdinLog, closes, stopCalls,
                   apiStops,
                   nread, outputs, ret, tasks, concVars>>

\* parseAiderOutput without line 139: the reader ends without publishing.
OutPublishEnd_silent(id) ==
    /\ outPc[id] = "eof"
    /\ outPc' = [outPc EXCEPT ![id] = "ended"]
    /\ UNCHANGED <<supVars, agentVars, natsClosed, startPc, bstop, bStopCh,
                   connected, sawEnd, stdinLog, closes, stopCalls, apiStops,
                   nread, outputs, ret, tasks, concVars, status, currentTask,
                   published>>

\* parseAiderOutput, line 139: publish "disconnected / Aider process ended".
OutPublishEnd(id) ==
    /\ outPc[id] = "eof"
    /\ outPc' = [outPc EXCEPT ![id] = "ended"]
    /\ publishStatus(id, "disconnected", "Aider process ended")
    /\ UNCHANGED <<supVars, agentVars, natsClosed, startPc, bstop, bStopCh,
                   connected, sawEnd, stdinLog, closes, stopCalls, apiStops,
                   nread, outputs, ret, tasks, concVars>>

\* parseAiderOutput, lines 118-122: a line still buffered is scanned after
\* stopCh was closed, and the reader returns without reporting anything.
OutReturn(id) ==
    /\ outPc[id] = "scan"
    /\ bStopCh[id]
    /\ outPc' = [outPc EXCEPT ![id] = "returned"]
    /\ UNCHANGED <<supVars, agentVars, natsClosed, published, startPc, bstop,
                   bStopCh, connected, status, currentTask, sawEnd, stdinLog,
                   closes, stopCalls, apiStops,
                   nread, outputs, ret, tasks, concVars>>

\* A direct call of Stop() on the Bridge, made after Start() returned nil and
\* after any earlier call returned; it runs lines 78-102.
ApiStop(id) ==
    /\ startPc[id] = "started"
    /\ bstop[id] \in {"none", "done"}
    /\ apiStops < MaxStopCalls
    /\ apiStops' = apiStops + 1
    /\ StopTeardown(id)
    /\ UNCHANGED <<supVars, agentVars, natsClosed, published, startPc, status,
                   currentTask, outPc, sawEnd, nread, outputs, ret, tasks, concVars>>

\* Number of commands that take effect on a Bridge.
MaxCmds == 1

\* The messages delivered on agent.<id>.command: whether the envelope decodes
\* (json.Unmarshal, line 225), the command type, and the value of the payload
\* key the type looks for (<<>>: the key is missing or is not a string).
Cmds ==
    {<<TRUE, "prompt", <<"fix the bug">>>>,
     <<TRUE, "prompt", <<>>>>,
     <<TRUE, "stop", <<>>>>,
     <<TRUE, "clear", <<>>>>,
     <<TRUE, "add", <<"main.go">>>>,
     <<TRUE, "add", <<>>>>,
     <<TRUE, "drop", <<"main.go">>>>,
     <<TRUE, "drop", <<>>>>,
     <<TRUE, "restart", <<>>>>,
     <<FALSE, "", <<>>>>}

\* The commands delivered to the Bridge of BridgeSpec.
BridgeCmds == {<<TRUE, "prompt", <<"fix the bug">>>>, <<TRUE, "stop", <<>>>>}

\* The line handleCommand writes to stdin for a message (lines 241, 246, 251,
\* 257, 264), <<>> when it writes none.
cmdLine(msg) ==
    CASE ~msg[1] -> <<>>
      [] msg[2] = "prompt" /\ msg[3] # <<>> -> <<msg[3][1]>>
      [] msg[2] = "stop" -> <<"/quit">>
      [] msg[2] = "clear" -> <<"/clear">>
      [] msg[2] = "add" /\ msg[3] # <<>> -> <<"/add " \o msg[3][1]>>
      [] msg[2] = "drop" /\ msg[3] # <<>> -> <<"/drop " \o msg[3][1]>>
      [] OTHER -> <<>>

\* The (status, task) handleCommand passes to publishStatus for a message
\* (lines 240, 247, 252, 258, 265), <<>> when it publishes none.
cmdStatus(msg) ==
    CASE ~msg[1] -> <<>>
      [] msg[2] = "prompt" /\ msg[3] # <<>> -> <<"working", "Processing prompt">>
      [] msg[2] = "stop" -> <<"stopping", "Quitting Aider">>
      [] msg[2] = "clear" -> <<"working", "Clearing chat history">>
      [] msg[2] = "add" /\ msg[3] # <<>> -> <<"working", "Adding file: " \o msg[3][1]>>
      [] msg[2] = "drop" /\ msg[3] # <<>> -> <<"working", "Dropping file: " \o msg[3][1]>>
      [] OTHER -> <<>>

\* The commands that took effect so far on Bridge id: each one published its
\* status on the open connection it was delivered on.
CmdsHandled(id) ==
    Cardinality({i \in 1..Len(published[id]) :
                    published[id][i] \in {cmdStatus(m) : m \in Cmds} \ {<<>>}})

\* handleCommand that takes the text of a prompt for the empty string when
\* the payload has no "text" (no ok test at line 235).
handleCommand_noKeyTest(id, msg) ==
    /\ startPc[id] \in {"launched", "marked", "started"}
    /\ ~natsClosed
    /\ CmdsHandled(id) < MaxCmds
    /\ IF msg[1] /\ msg[2] = "prompt"
       THEN /\ stdinLog' = stdinWrite(id, IF msg[3] = <<>> THEN "" ELSE msg[3][1])
            /\ publishStatus(id, "working", "Processing prompt")
       ELSE IF cmdStatus(msg) = <<>>
       THEN UNCHANGED <<stdinLog, status, currentTask, published>>
       ELSE /\ stdinLog' = stdinWrite(id, cmdLine(msg)[1])
            /\ publishStatus(id, cmdStatus(msg)[1], cmdStatus(msg)[2])
    /\ UNCHANGED <<supVars, agentVars, natsClosed, startPc, bstop, bStopCh,
                   connected, outPc, sawEnd, closes, stopCalls, apiStops,
                   nread, outputs>>

\* handleCommand that writes the line of a prompt twice.
handleCommand_writesTwice(id, msg) ==
    /\ startPc[id] \in {"launched", "marked", "started"}
    /\ ~natsClosed
    /\ CmdsHandled(id) < MaxCmds
    /\ IF cmdStatus(msg) = <<>>
       THEN UNCHANGED <<stdinLog, status, currentTask, published>>
       ELSE /\ stdinLog' =
                 IF closes[id] = 0 /\ proc[id] = "running"
                 THEN [stdinLog EXCEPT
                         ![id] = Append(Append(@, cmdLine(msg)[1]), cmdLine(msg)[1])]
                 ELSE stdinLog
            /\ publishStatus(id, cmdStatus(msg)[1], cmdStatus(msg)[2])
    /\ UNCHANGED <<supVars, agentVars, natsClosed, startPc, bstop, bStopCh,
                   connected, outPc, sawEnd, closes, stopCalls, apiStops,
                   nread, outputs>>

\* handleCommand that publishes no status for the commands other than prompt.
handleCommand_promptOnly(id, msg) ==
    /\ startPc[id] \in {"launched", "marked", "started"}
    /\ ~natsClosed
    /\ CmdsHandled(id) < MaxCmds
    /\ IF cmdStatus(msg) = <<>>
       THEN UNCHANGED <<stdinLog, status, currentTask, published>>
       ELSE /\ stdinLog' = stdinWrite(id, cmdLine(msg)[1])
            /\ IF msg[2] = "prompt"
               THEN publishStatus(id, cmdStatus(msg)[1], cmdStatus(msg)[2])
               ELSE UNCHANGED <<status, currentTask, published>>
    /\ UNCHANGED <<supVars, agentVars, natsClosed, startPc, bstop, bStopCh,
                   connected, outPc, sawEnd, closes, stopCalls, apiStops,
                   nread, outputs>>

\* handleCommand (lines 222-271), the callback of the subscription made at
\* line 53, which nothing unsubscribes: it runs for every message delivered
\* while the connection is open, whatever the state of the Bridge.  A message
\* that does not decode, an unknown type and a missing payload key return
\* without effect; the other commands write their line to stdin and call
\* publishStatus (for "prompt" the task set at line 237 is overwritten by
\* publishStatus at line 277).
handleCommand(id, msg) ==
    /\ startPc[id] \in {"launched", "marked", "started"}
    /\ ~natsClosed
    /\ CmdsHandled(id) < MaxCmds
    /\ IF cmdStatus(msg) = <<>>
       THEN UNCHANGED <<stdinLog, status, currentTask, published>>
       ELSE /\ stdinLog' = stdinWrite(id, cmdLine(msg)[1])
            /\ publishStatus(id, cmdStatus(msg)[1], cmdStatus(msg)[2])
    /\ UNCHANGED <<supVars, agentVars, natsClosed, startPc, bstop, bStopCh,
                   connected, outPc, sawEnd, closes, stopCalls, apiStops,
                   nread, outputs>>

\* handleCommand run by the subscription, with nobody looking at the call.
HandleCommand(id, msg) ==
    /\ handleCommand(id, msg)
    /\ UNCHANGED <<ret, tasks, concVars>>

\* handleCommand run for a message an observer has sent: the call and its
\* message are recorded.
HandleCommandObs(id, msg) ==
    /\ handleCommand(id, msg)
    /\ UNCHANGED <<tasks, concVars>>
    /\ ret' = <<"handleCommand", msg>>

\* Number of stderr lines the reader of a Bridge processes.
MaxErrLines == 1

\* The stderr lines the subprocess emits.
ErrLines == {"Error: boom", "some unrelated text", ""}

\* The stderr lines read so far by Bridge id: each one was published on the
\* open connection.
ErrRead(id) ==
    Cardinality({i \in 1..Len(outputs[id]) : outputs[id][i][1] = "stderr"})

\* The stderr reader publishing a status for every line.
ErrLine_alwaysStatus(id, line) ==
    /\ startPc[id] \in {"launched", "marked", "started"}
    /\ ~bStopCh[id]
    /\ closes[id] = 0
    /\ ErrRead(id) < MaxErrLines
    /\ publishOutput(id, "stderr", line)
    /\ publishStatus(id, "error", line)
    /\ UNCHANGED <<supVars, agentVars, natsClosed, startPc, bstop, bStopCh,
                   connected, outPc, sawEnd, stdinLog, closes, stopCalls,
                   apiStops, nread, ret, tasks, concVars>>

\* parseAiderErrors, lines 145-159: a stderr line is scanned while stopCh is
\* open; the raw line is published, then status "error" with the line as
\* task if the lowered line contains "error".
ErrLine(id, line) ==
    /\ startPc[id] \in {"launched", "marked", "started"}
    /\ ~bStopCh[id]
    /\ closes[id] = 0
    /\ ErrRead(id) < MaxErrLines
    /\ publishOutput(id, "stderr", line)
    /\ IF Contains(ToLower(chars(line)), <<"e", "r", "r", "o", "r">>)
       THEN publishStatus(id, "error", line)
       ELSE UNCHANGED <<status, currentTask, published>>
    /\ UNCHANGED <<supVars, agentVars, natsClosed, startPc, bstop, bStopCh,
                   connected, outPc, sawEnd, stdinLog, closes, stopCalls,
                   apiStops, nread, ret, tasks, concVars>>

----------------------------------------------------------------------------
(* OS process *)

\* The subprocess terminates on its own (crash, or its reaction to "/quit",
\* to closed pipes or to SIGTERM).  It stays unreaped until cmd.Wait returns.
ProcExit(id) ==
    /\ proc[id] = "running"
    /\ proc' = [proc EXCEPT ![id] = "exited"]
    /\ UNCHANGED <<supVars, bridgeVars, natsClosed, published, stopPc, stopBy,
                   done, expired, sigs, removedBy, crashCalls, ret, tasks, concVars>>

----------------------------------------------------------------------------
(* Spawner.SpawnAgent *)

Paths == {"", "missing", "ok"}

\* SpawnAgent with an agent ID that is not fresh: every agent gets the ID of
\* the first one.
spawnAgent_sameID(path, startOK) ==
    /\ mu = "free"
    /\ IF path # "ok" \/ ~startOK
       THEN UNCHANGED progVars
       ELSE /\ nextID < MaxAgents
            /\ nextID' = nextID + 1
            /\ Start(1)
            /\ IF natsClosed
               THEN /\ proc' = [proc EXCEPT ![1] = "exited"]
                    /\ sigs' = [sigs EXCEPT ![1] = Append(@, "KILL")]
                    /\ agents' = agents
               ELSE /\ proc' = [proc EXCEPT ![1] = "running"]
                    /\ sigs' = sigs
                    /\ agents' = agents \cup {1}
            /\ UNCHANGED <<mu, stopCh, monitorPc, toCheck, cur, stopAllPc,
                           allPending, natsClosed, stopPc, stopBy, done,
                           expired, removedBy, crashCalls, bstop, bStopCh,
                           sawEnd, stdinLog, closes, stopCalls, apiStops,
                           nread, outputs>>

\* SpawnAgent without the path validation of lines 400-406.
spawnAgent_unvalidated(path, startOK) ==
    /\ mu = "free"
    /\ IF ~startOK
       THEN UNCHANGED progVars
       ELSE /\ nextID < MaxAgents
            /\ nextID' = nextID + 1
            /\ Start(nextID + 1)
            /\ IF natsClosed
               THEN /\ proc' = [proc EXCEPT ![nextID + 1] = "exited"]
                    /\ sigs' = [sigs EXCEPT ![nextID + 1] = Append(@, "KILL")]
                    /\ agents' = agents
               ELSE /\ proc' = [proc EXCEPT ![nextID + 1] = "running"]
                    /\ sigs' = sigs
                    /\ agents' = agents \cup {nextID + 1}
            /\ UNCHANGED <<mu, stopCh, monitorPc, toCheck, cur, stopAllPc,
                           allPending, natsClosed, stopPc, stopBy, done,
                           expired, removedBy, crashCalls, bstop, bStopCh,
                           sawEnd, stdinLog, closes, stopCalls, apiStops,
                           nread, outputs>>

\* SpawnAgent that goes on after a failed bridge.Start() (no return at
\* line 448): the agent is inserted all the same.
spawnAgent_ignoresStartError(path, startOK) ==
    /\ mu = "free"
    /\ IF path # "ok" \/ ~startOK
       THEN UNCHANGED progVars
       ELSE /\ nextID < MaxAgents
            /\ nextID' = nextID + 1
            /\ Start(nextID + 1)
            /\ IF natsClosed
               THEN /\ proc' = [proc EXCEPT ![nextID + 1] = "exited"]
                    /\ sigs' = [sigs EXCEPT ![nextID + 1] = Append(@, "KILL")]
                    /\ agents' = agents \cup {nextID + 1}
               ELSE /\ proc' = [proc EXCEPT ![nextID + 1] = "running"]
                    /\ sigs' = sigs
                    /\ agents' = agents \cup {nextID + 1}
            /\ UNCHANGED <<mu, stopCh, monitorPc, toCheck, cur, stopAllPc,
                           allPending, natsClosed, stopPc, stopBy, done,
                           expired, removedBy, crashCalls, bstop, bStopCh,
                           sawEnd, stdinLog, closes, stopCalls, apiStops,
                           nread, outputs>>

\* SpawnAgent (lines 392-468), which holds s.mu from entry to return.  An
\* empty or missing path, or a failing cmd.Start(), returns an error before
\* any process exists.  Otherwise: fresh ID, process started, Bridge made by
\* NewBridge (status "starting") and started; if Start() fails the process is
\* killed (and never waited for) and the error returned; if it succeeds the
\* agent is inserted into the live set.
spawnAgent(path, startOK) ==
    /\ mu = "free"
    /\ IF path # "ok" \/ ~startOK
       THEN UNCHANGED progVars
       ELSE /\ nextID < MaxAgents
            /\ nextID' = nextID + 1
            /\ Start(nextID + 1)
            /\ IF natsClosed
               THEN /\ proc' = [proc EXCEPT ![nextID + 1] = "exited"]
                    /\ sigs' = [sigs EXCEPT ![nextID + 1] = Append(@, "KILL")]
                    /\ agents' = agents
               ELSE /\ proc' = [proc EXCEPT ![nextID + 1] = "running"]
                    /\ sigs' = sigs
                    /\ agents' = agents \cup {nextID + 1}
            /\ UNCHANGED <<mu, stopCh, monitorPc, toCheck, cur, stopAllPc,
                           allPending, natsClosed, stopPc, stopBy, done,
                           expired, removedBy, crashCalls, bstop, bStopCh,
                           sawEnd, stdinLog, closes, stopCalls, apiStops,
                           nread, outputs>>

\* SpawnAgent called by a caller whose use of the result is not followed.
SpawnAgent(path, startOK) ==
    /\ spawnAgent(path, startOK)
    /\ UNCHANGED <<ret, tasks, concVars>>

----------------------------------------------------------------------------
(* Spawner.StopAgent *)

\* StopAgent without the delete of line 478: the agent stays in the live set.
StopAgentLookup_keeps(id, who) ==
    /\ mu = "free"
    /\ IF id \in agents
       THEN /\ agents' = agents
            /\ stopPc' = [stopPc EXCEPT ![id] = "removed"]
            /\ stopBy' = [stopBy EXCEPT ![id] = who]
            /\ removedBy' = [removedBy EXCEPT ![id] = "stop"]
       ELSE UNCHANGED <<agents, stopPc, stopBy, removedBy>>
    /\ mu' = "free"

\* StopAgent without the exists test of lines 474-477: the call goes on for
\* an ID that is not in the live set.
StopAgentLookup_blind(id, who) ==
    /\ mu = "free"
    /\ agents' = agents \ {id}
    /\ stopPc' = [stopPc EXCEPT ![id] = "removed"]
    /\ stopBy' = [stopBy EXCEPT ![id] = who]
    /\ removedBy' = [removedBy EXCEPT ![id] = "stop"]
    /\ mu' = "free"

\* StopAgent with the unlock deferred to its return: s.mu stays held while the
\* call stops the Bridge and waits for the process.
StopAgentLookup_locked(id, who) ==
    /\ mu = "free"
    /\ IF id \in agents
       THEN /\ agents' = agents \ {id}
            /\ stopPc' = [stopPc EXCEPT ![id] = "removed"]
            /\ stopBy' = [stopBy EXCEPT ![id] = who]
            /\ removedBy' = [removedBy EXCEPT ![id] = "stop"]
            /\ mu' = "stop"
       ELSE /\ UNCHANGED <<agents, stopPc, stopBy, removedBy>>
            /\ mu' = "free"

\* StopAgent, lines 472-479, as a function of the caller: under s.mu, look the
\* agent up; unknown: return "not found"; known: delete it from the live set;
\* either way release s.mu (lines 475, 479).
StopAgentLookup(id, who) ==
    /\ mu = "free"
    /\ IF id \in agents
       THEN /\ agents' = agents \ {id}
            /\ stopPc' = [stopPc EXCEPT ![id] = "removed"]
            /\ stopBy' = [stopBy EXCEPT ![id] = who]
            /\ removedBy' = [removedBy EXCEPT ![id] = "stop"]
       ELSE UNCHANGED <<agents, stopPc, stopBy, removedBy>>
    /\ mu' = "free"

\* StopAgent called by an HTTP handler (main.go, /api/agents/stop).
StopAgentCall(id) ==
    /\ StopAgentLookup(id, "http")
    /\ UNCHANGED <<stopCh, nextID, monitorPc, toCheck, cur, stopAllPc,
                   allPending, natsClosed, published, bridgeVars, proc, done,
                   expired, sigs, crashCalls, ret, tasks, concVars>>

\* StopAgent, line 484: agent.Bridge.Stop().
StopAgentBridgeStop(id) ==
    /\ stopPc[id] = "removed"
    /\ stopPc' = [stopPc EXCEPT ![id] = "stopped"]
    /\ Stop(id)
    /\ UNCHANGED <<supVars, startPc, outPc, sawEnd, apiStops, proc, stopBy,
                   done, expired, sigs, removedBy, crashCalls,
                   nread, outputs, ret, tasks, concVars>>

\* StopAgent, lines 487-495: SendCommand("/quit"), start the goroutine that
\* calls cmd.Wait(), and enter the first select.
StopAgentSendQuit(id) ==
    /\ stopPc[id] = "stopped"
    /\ stopPc' = [stopPc EXCEPT ![id] = "wait5"]
    /\ stdinLog' = stdinWrite(id, "/quit")
    /\ UNCHANGED <<supVars, natsClosed, published, startPc, bstop, bStopCh,
                   connected, status, currentTask, outPc, sawEnd, closes,
                   stopCalls, apiStops, proc, stopBy, done, expired, sigs,
                   removedBy, crashCalls,
                   nread, outputs, ret, tasks, concVars>>

\* Lines 491-493: cmd.Wait() returns once the process has terminated, reaping
\* it, and its result is sent on the buffered done channel.
WaitReturn(id) ==
    /\ stopPc[id] \in {"wait5", "sigterm", "wait3", "kill", "reap", "err"}
    /\ ~done[id]
    /\ proc[id] = "exited"
    /\ proc' = [proc EXCEPT ![id] = "reaped"]
    /\ done' = [done EXCEPT ![id] = TRUE]
    /\ UNCHANGED <<supVars, natsClosed, published, bridgeVars, stopPc, stopBy,
                   expired, sigs, removedBy, crashCalls, ret, tasks, concVars>>

\* A first select that passes the error of cmd.Wait() on to the caller.
firstWaitResult_passes(err) == IF err THEN "err" ELSE "nil"

\* What StopAgent returns when its first select receives err from done
\* (lines 496-502): nil, whether err is nil or an exit-status error.
firstWaitResult(err) == "nil"

\* Lines 496-502: the first select receives from done.
StopAgentExited(id, err) ==
    /\ stopPc[id] = "wait5"
    /\ done[id]
    /\ stopPc' = [stopPc EXCEPT ![id] = firstWaitResult(err)]
    /\ UNCHANGED <<supVars, natsClosed, published, bridgeVars, proc, stopBy,
                   done, expired, sigs, removedBy, crashCalls, ret, tasks, concVars>>

\* Line 504: the select takes the 5-second timer case.  A select whose cases
\* are both ready chooses either, so done may already hold the result.
StopAgentTimeout5(id) ==
    /\ stopPc[id] = "wait5"
    /\ stopPc' = [stopPc EXCEPT ![id] = "sigterm"]
    /\ expired' = [expired EXCEPT ![id] = @ + 1]
    /\ UNCHANGED <<supVars, natsClosed, published, bridgeVars, proc, stopBy,
                   done, sigs, removedBy, crashCalls, ret, tasks, concVars>>

\* SIGTERM sent straight after "/quit", with no first wait.
StopAgentSigterm_early(id) ==
    /\ stopPc[id] = "wait5"
    /\ stopPc' = [stopPc EXCEPT ![id] = "wait3"]
    /\ sigs' = [sigs EXCEPT ![id] = Append(@, "TERM")]
    /\ UNCHANGED <<supVars, natsClosed, published, bridgeVars, proc, stopBy,
                   done, expired, removedBy, crashCalls, ret, tasks, concVars>>

\* Lines 506-512: Process.Signal(SIGTERM); a failure is only logged.  Then
\* enter the second select.
StopAgentSigterm(id) ==
    /\ stopPc[id] = "sigterm"
    /\ stopPc' = [stopPc EXCEPT ![id] = "wait3"]
    /\ sigs' = [sigs EXCEPT ![id] = Append(@, "TERM")]
    /\ UNCHANGED <<supVars, natsClosed, published, bridgeVars, proc, stopBy,
                   done, expired, removedBy, crashCalls, ret, tasks, concVars>>

\* Lines 513-515: the second select receives from done; return nil.
StopAgentExitedAfterTerm(id) ==
    /\ stopPc[id] = "wait3"
    /\ done[id]
    /\ stopPc' = [stopPc EXCEPT ![id] = "nil"]
    /\ UNCHANGED <<supVars, natsClosed, published, bridgeVars, proc, stopBy,
                   done, expired, sigs, removedBy, crashCalls, ret, tasks, concVars>>

\* Line 516: the select takes the 3-second timer case (done may be ready too).
StopAgentTimeout3(id) ==
    /\ stopPc[id] = "wait3"
    /\ stopPc' = [stopPc EXCEPT ![id] = "kill"]
    /\ expired' = [expired EXCEPT ![id] = @ + 1]
    /\ UNCHANGED <<supVars, natsClosed, published, bridgeVars, proc, stopBy,
                   done, sigs, removedBy, crashCalls, ret, tasks, concVars>>

\* A forced kill that has no effect on a process that ignores it: StopAgent
\* goes on to wait for done without the process having been terminated.
StopAgentKill_ineffective(id) ==
    /\ stopPc[id] = "kill"
    /\ sigs' = [sigs EXCEPT ![id] = Append(@, "KILL")]
    /\ stopPc' = [stopPc EXCEPT ![id] = IF proc[id] = "reaped" THEN "err" ELSE "reap"]
    /\ proc' = proc
    /\ UNCHANGED <<supVars, natsClosed, published, bridgeVars, stopBy, done,
                   expired, removedBy, crashCalls, ret, tasks, concVars>>

\* StopAgent that puts the agent back into the live set when the forced kill
\* fails.
StopAgentKill_reinserts(id) ==
    /\ stopPc[id] = "kill"
    /\ sigs' = [sigs EXCEPT ![id] = Append(@, "KILL")]
    /\ IF proc[id] = "reaped"
       THEN /\ stopPc' = [stopPc EXCEPT ![id] = "err"]
            /\ proc' = proc
            /\ agents' = agents \cup {id}
       ELSE /\ stopPc' = [stopPc EXCEPT ![id] = "reap"]
            /\ proc' = [proc EXCEPT ![id] = "exited"]
            /\ agents' = agents
    /\ UNCHANGED <<mu, stopCh, nextID, monitorPc, toCheck, cur, stopAllPc,
                   allPending, natsClosed, published, bridgeVars, stopBy, done,
                   expired, removedBy, crashCalls, ret, tasks, concVars>>

\* Lines 518-521: Process.Kill().  It fails ("os: process already finished")
\* when cmd.Wait has meanwhile reaped the process, and StopAgent returns that
\* error; otherwise the process is terminated.
StopAgentKill(id) ==
    /\ stopPc[id] = "kill"
    /\ sigs' = [sigs EXCEPT ![id] = Append(@, "KILL")]
    /\ IF proc[id] = "reaped"
       THEN /\ stopPc' = [stopPc EXCEPT ![id] = "err"]
            /\ proc' = proc
       ELSE /\ stopPc' = [stopPc EXCEPT ![id] = "reap"]
            /\ proc' = [proc EXCEPT ![id] = "exited"]
    /\ UNCHANGED <<supVars, natsClosed, published, bridgeVars, stopBy, done,
                   expired, removedBy, crashCalls, ret, tasks, concVars>>

\* Lines 522-524: <-done after the kill; return nil.
StopAgentReaped(id) ==
    /\ stopPc[id] = "reap"
    /\ done[id]
    /\ stopPc' = [stopPc EXCEPT ![id] = "nil"]
    /\ UNCHANGED <<supVars, natsClosed, published, bridgeVars, proc, stopBy,
                   done, expired, sigs, removedBy, crashCalls, ret, tasks, concVars>>

----------------------------------------------------------------------------
(* Liveness poller: Spawner.monitorAgents / checkAgents *)

\* isProcessRunning: Process.Signal(0) returns nil.  A running process
\* answers; a reaped one does not; for one that has terminated but was not
\* waited for the answer depends on the platform (a Unix zombie still
\* accepts signal 0), so both answers are possible.
isProcessRunning(id) ==
    CASE proc[id] = "running" -> {TRUE}
      [] proc[id] = "exited" -> {TRUE, FALSE}
      [] OTHER -> {FALSE}

\* monitorAgents, lines 596-597, and checkAgents, lines 604-607: the ticker
\* case is selected (it can be, even with stopCh closed, when both are ready)
\* and checkAgents takes s.mu and starts ranging over the live set.
Tick ==
    /\ monitorPc = "idle"
    /\ mu = "free"
    /\ mu' = "check"
    /\ monitorPc' = "scan"
    /\ toCheck' = agents
    /\ UNCHANGED <<agents, stopCh, nextID, cur, stopAllPc, allPending, agentVars,
                   bridgeVars, natsClosed, published, ret, tasks, concVars>>

\* checkAgents, lines 607-609: the probe of one entry succeeds.
CheckAlive(id) ==
    /\ monitorPc = "scan"
    /\ id \in toCheck
    /\ TRUE \in isProcessRunning(id)
    /\ toCheck' = toCheck \ {id}
    /\ UNCHANGED <<agents, mu, stopCh, nextID, monitorPc, cur, stopAllPc,
                   allPending, agentVars, bridgeVars, natsClosed, published, ret, tasks, concVars>>

\* checkAgents, lines 609-613: the probe of one entry fails; call
\* agent.Bridge.Stop().
CheckCrashed(id) ==
    /\ monitorPc = "scan"
    /\ id \in toCheck
    /\ FALSE \in isProcessRunning(id)
    /\ monitorPc' = "crashed"
    /\ cur' = id
    /\ Stop(id)
    /\ UNCHANGED <<agents, mu, stopCh, nextID, toCheck, stopAllPc, allPending,
                   agentVars, startPc, outPc, sawEnd, apiStops,
                   nread, outputs, ret, tasks, concVars>>

\* publishCrash, lines 633-653: one message with status "crashed" on
\* agent.<id>.status; Publish on a closed connection fails and the failure
\* is only logged.
publishCrash(id) ==
    /\ crashCalls' = [crashCalls EXCEPT ![id] = @ + 1]
    /\ published' = IF natsClosed
                    THEN published
                    ELSE [published EXCEPT
                             ![id] = Append(@, <<"crashed", "Aider process crashed">>)]

\* Crash handling without the delete of line 616.
CheckRemove_keeps ==
    /\ monitorPc = "crashed"
    /\ monitorPc' = "scan"
    /\ agents' = agents
    /\ toCheck' = toCheck \ {cur}
    /\ removedBy' = [removedBy EXCEPT ![cur] = "crash"]
    /\ publishCrash(cur)
    /\ cur' = 0
    /\ UNCHANGED <<mu, stopCh, nextID, stopAllPc, allPending, bridgeVars,
                   natsClosed, proc, stopPc, stopBy, done, expired, sigs, ret, tasks, concVars>>

\* checkAgents, lines 615-619: delete the entry and publish the crash
\* notification.
CheckRemove ==
    /\ monitorPc = "crashed"
    /\ monitorPc' = "scan"
    /\ agents' = agents \ {cur}
    /\ toCheck' = toCheck \ {cur}
    /\ removedBy' = [removedBy EXCEPT ![cur] = "crash"]
    /\ publishCrash(cur)
    /\ cur' = 0
    /\ UNCHANGED <<mu, stopCh, nextID, stopAllPc, allPending, bridgeVars,
                   natsClosed, proc, stopPc, stopBy, done, expired, sigs, ret, tasks, concVars>>

\* checkAgents without the deferred s.mu.Unlock() of line 605.
CheckDone_keepsLock ==
    /\ monitorPc = "scan"
    /\ toCheck = {}
    /\ monitorPc' = "idle"
    /\ mu' = mu
    /\ UNCHANGED <<agents, stopCh, nextID, toCheck, cur, stopAllPc, allPending,
                   agentVars, bridgeVars, natsClosed, published, ret, tasks,
                   concVars>>

\* checkAgents, lines 605 and 621-622: the range loop is over; release s.mu.
CheckDone ==
    /\ monitorPc = "scan"
    /\ toCheck = {}
    /\ monitorPc' = "idle"
    /\ mu' = "free"
    /\ UNCHANGED <<agents, stopCh, nextID, toCheck, cur, stopAllPc, allPending,
                   agentVars, bridgeVars, natsClosed, published, ret, tasks, concVars>>

\* monitorAgents, lines 586 and 593-594: stopCh is closed; return (wg.Done).
MonitorExit ==
    /\ monitorPc = "idle"
    /\ stopCh
    /\ monitorPc' = "exited"
    /\ UNCHANGED <<agents, mu, stopCh, nextID, toCheck, cur, stopAllPc,
                   allPending, agentVars, bridgeVars, natsClosed, published, ret, tasks, concVars>>

----------------------------------------------------------------------------
(* Spawner.StopAll *)

\* StopAll, line 553: close(s.stopCh).
StopAllSignal ==
    /\ stopAllPc = "idle"
    /\ stopAllPc' = "snap"
    /\ stopCh' = TRUE
    /\ UNCHANGED <<agents, mu, nextID, monitorPc, toCheck, cur, allPending,
                   agentVars, bridgeVars, natsClosed, published, ret, tasks, concVars>>

\* StopAll, lines 556-573: snapshot the IDs under the read lock and start one
\* StopAgent task per ID.
StopAllSnapshot ==
    /\ stopAllPc = "snap"
    /\ mu = "free"
    /\ stopAllPc' = "wait"
    /\ allPending' = agents
    /\ UNCHANGED <<agents, mu, stopCh, nextID, monitorPc, toCheck, cur,
                   agentVars, bridgeVars, natsClosed, published, ret, tasks, concVars>>

\* StopAll, lines 567-572: a task calls s.StopAgent(agentID).
StopAllTask(id) ==
    /\ stopAllPc = "wait"
    /\ id \in allPending
    /\ allPending' = allPending \ {id}
    /\ StopAgentLookup(id, "all")
    /\ UNCHANGED <<stopCh, nextID, monitorPc, toCheck, cur, stopAllPc,
                   natsClosed, published, bridgeVars, proc, done, expired,
                   sigs, crashCalls, ret, tasks, concVars>>

\* The StopAgent call of the task for id has returned (wg.Done).
TaskDone(id) ==
    /\ id \notin allPending
    /\ stopBy[id] = "all" => stopPc[id] \in {"nil", "err"}

\* StopAll, lines 576-582: wg.Wait() for the tasks, s.wg.Wait() for the
\* poller, then return.
StopAllReturn ==
    /\ stopAllPc = "wait"
    /\ \A id \in IDs : TaskDone(id)
    /\ monitorPc = "exited"
    /\ stopAllPc' = "returned"
    /\ UNCHANGED <<agents, mu, stopCh, nextID, monitorPc, toCheck, cur,
                   allPending, agentVars, bridgeVars, natsClosed, published, ret, tasks, concVars>>

----------------------------------------------------------------------------
(* The Supervisor with its Bridges *)

Next ==
    \/ \E id \in IDs : ProcExit(id)
    \/ \E path \in Paths, startOK \in BOOLEAN : SpawnAgent(path, startOK)
    \/ \E id \in IDs : StopAgentCall(id)
    \/ \E id \in IDs : StopAgentBridgeStop(id)
    \/ \E id \in IDs : StopAgentSendQuit(id)
    \/ \E id \in IDs : WaitReturn(id)
    \/ \E id \in IDs, err \in BOOLEAN : StopAgentExited(id, err)
    \/ \E id \in IDs : StopAgentTimeout5(id)
    \/ \E id \in IDs : StopAgentSigterm(id)
    \/ \E id \in IDs : StopAgentExitedAfterTerm(id)
    \/ \E id \in IDs : StopAgentTimeout3(id)
    \/ \E id \in IDs : StopAgentKill(id)
    \/ \E id \in IDs : StopAgentReaped(id)
    \/ Tick
    \/ \E id \in IDs : CheckAlive(id)
    \/ \E id \in IDs : CheckCrashed(id)
    \/ CheckRemove
    \/ CheckDone
    \/ MonitorExit
    \/ StopAllSignal
    \/ StopAllSnapshot
    \/ \E id \in IDs : StopAllTask(id)
    \/ StopAllReturn

Spec == Init /\ [][Next]_vars

----------------------------------------------------------------------------
(* The Supervisor as its callers see it *)

\* The error SpawnAgent returns ("": nil), lines 400-406, 437-439, 445-449
\* and 467.
spawnResult(path, startOK) ==
    CASE path = "" -> "project path is required"
      [] path = "missing" -> "project path does not exist"
      [] ~startOK -> "failed to start aider"
      [] natsClosed -> "failed to start bridge"
      [] OTHER -> ""

\* SpawnAgent called by a caller that looks at the result: the call, its
\* argument, the error and the ID of the returned agent (0: nil).
SpawnAgentRet(path, startOK) ==
    /\ spawnAgent(path, startOK)
    /\ UNCHANGED <<tasks, concVars>>
    /\ ret' = <<"SpawnAgent", path, spawnResult(path, startOK),
                IF spawnResult(path, startOK) = "" THEN nextID + 1 ELSE 0>>

\* What the lookup of StopAgent finds (lines 473-477).
lookupResult(id) == IF id \in agents THEN "found" ELSE "not found"

\* StopAgent called by a caller that looks at the outcome of the lookup.
StopAgentRet(id) ==
    /\ StopAgentLookup(id, "http")
    /\ UNCHANGED <<tasks, concVars>>
    /\ ret' = <<"StopAgent", id, lookupResult(id)>>
    /\ UNCHANGED <<stopCh, nextID, monitorPc, toCheck, cur, stopAllPc,
                   allPending, natsClosed, published, bridgeVars, proc, done,
                   expired, sigs, crashCalls>>

\* ListAgents without s.mu.RLock(): the map is read whoever holds the lock.
ListAgentsRet_unlocked ==
    /\ UNCHANGED <<tasks, concVars>>
    /\ ret' = <<"ListAgents", agents>>
    /\ UNCHANGED progVars

\* ListAgents (lines 537-546): the live set, read under the read lock.
ListAgentsRet ==
    /\ mu = "free"
    /\ UNCHANGED <<tasks, concVars>>
    /\ ret' = <<"ListAgents", agents>>
    /\ UNCHANGED progVars

\* GetAgent (lines 530-534): the entry of the ID (0: nil), read under the
\* read lock.
GetAgentRet(id) ==
    /\ mu = "free"
    /\ UNCHANGED <<tasks, concVars>>
    /\ ret' = <<"GetAgent", id, IF id \in agents THEN id ELSE 0>>
    /\ UNCHANGED progVars

CallNext ==
    \/ \E id \in IDs : ProcExit(id)
    \/ \E path \in Paths, startOK \in BOOLEAN : SpawnAgentRet(path, startOK)
    \/ \E id \in IDs : StopAgentRet(id)
    \/ \E id \in IDs : StopAgentBridgeStop(id)
    \/ \E id \in IDs : StopAgentSendQuit(id)
    \/ ListAgentsRet
    \/ \E id \in IDs : GetAgentRet(id)
    \/ Tick
    \/ \E id \in IDs : CheckAlive(id)
    \/ \E id \in IDs : CheckCrashed(id)
    \/ CheckRemove
    \/ CheckDone

\* The Supervisor with callers that observe what SpawnAgent, StopAgent,
\* ListAgents and GetAgent return, up to the first wait of StopAgent.
CallSpec == Init /\ [][CallNext]_vars

----------------------------------------------------------------------------
(* Scheduling *)

\* The steps of the StopAgent call that removed agent id, after the removal.
StopAgentStep(id) ==
    \/ StopAgentBridgeStop(id)
    \/ StopAgentSendQuit(id)
    \/ \E err \in BOOLEAN : StopAgentExited(id, err)
    \/ StopAgentTimeout5(id)
    \/ StopAgentSigterm(id)
    \/ StopAgentExitedAfterTerm(id)
    \/ StopAgentTimeout3(id)
    \/ StopAgentKill(id)
    \/ StopAgentReaped(id)

\* The steps of checkAgents once it holds s.mu.
CheckStep ==
    \/ \E id \in IDs : CheckAlive(id)
    \/ \E id \in IDs : CheckCrashed(id)
    \/ CheckRemove
    \/ CheckDone

\* The Supervisor under the scheduling the Go runtime provides: every goroutine
\* that can run does run (StopAgent calls, their cmd.Wait goroutines,
\* checkAgents, StopAll); timers fire; sync.RWMutex does not starve a waiter,
\* so a step that needs s.mu is taken if s.mu is free again and again; and
\* the poller's select, with stopCh closed and the ticker ready only once in
\* ten seconds, takes the stopCh case.  The subprocess itself, the callers of
\* SpawnAgent and StopAgent, and the ticker are under no obligation.
FairSpec ==
    /\ Spec
    /\ \A id \in IDs : WF_vars(StopAgentStep(id))
    /\ \A id \in IDs : WF_vars(WaitReturn(id))
    /\ WF_vars(CheckStep)
    /\ SF_vars(MonitorExit)
    /\ SF_vars(StopAllSnapshot)
    /\ \A id \in IDs : SF_vars(StopAllTask(id))
    /\ WF_vars(StopAllReturn)

----------------------------------------------------------------------------
(* One Bridge driven through its API *)

\* The Bridge under study: the one with the least agent ID.
B == CHOOSE i \in IDs : \A j \in IDs : i <= j

\* The state in which SpawnAgent calls bridge.Start() (line 445): the process
\* of agent B runs, NewBridge has made its Bridge, and the shared connection
\* is open or was already closed by the Stop() of an earlier Bridge.
BridgeInit ==
    /\ agents = {}
    /\ mu = "free"
    /\ stopCh = FALSE
    /\ natsClosed \in BOOLEAN
    /\ nextID = B
    /\ monitorPc = "idle"
    /\ toCheck = {}
    /\ cur = 0
    /\ stopAllPc = "idle"
    /\ allPending = {}
    /\ proc = [i \in IDs |-> IF i = B THEN "running" ELSE "none"]
    /\ stopPc = [i \in IDs |-> "idle"]
    /\ stopBy = [i \in IDs |-> "none"]
    /\ done = [i \in IDs |-> FALSE]
    /\ expired = [i \in IDs |-> 0]
    /\ sigs = [i \in IDs |-> <<>>]
    /\ removedBy = [i \in IDs |-> "none"]
    /\ crashCalls = [i \in IDs |-> 0]
    /\ startPc = [i \in IDs |-> IF i = B THEN "new" ELSE "none"]
    /\ bstop = [i \in IDs |-> "none"]
    /\ bStopCh = [i \in IDs |-> FALSE]
    /\ connected = [i \in IDs |-> FALSE]
    /\ status = [i \in IDs |-> IF i = B THEN "starting" ELSE "none"]
    /\ currentTask = [i \in IDs |-> ""]
    /\ outPc = [i \in IDs |-> "none"]
    /\ sawEnd = [i \in IDs |-> FALSE]
    /\ stdinLog = [i \in IDs |-> <<>>]
    /\ closes = [i \in IDs |-> 0]
    /\ stopCalls = [i \in IDs |-> 0]
    /\ apiStops = 0
    /\ nread = [i \in IDs |-> 0]
    /\ outputs = [i \in IDs |-> <<>>]
    /\ published = [i \in IDs |-> <<>>]
    /\ ret = <<>>
    /\ tasks = [id \in TaskIDs |-> NoTask]
    /\ stopperPc = [c \in Stoppers |-> "idle"]
    /\ pend = [t \in Threads |-> <<>>]
    /\ all2Pc = "idle"

BridgeNext ==
    \/ ProcExit(B)
    \/ StartSubscribe(B)
    \/ StartMark(B)
    \/ StartPublish(B)
    \/ \E line \in Lines : OutLine(B, line)
    \/ OutScanEnd(B)
    \/ OutPublishEnd(B)
    \/ OutReturn(B)
    \/ ApiStop(B)
    \/ \E msg \in BridgeCmds : HandleCommand(B, msg)
    \/ StopPublish(B)
    \/ StopCloseBus(B)

BridgeSpec == BridgeInit /\ [][BridgeNext]_vars

----------------------------------------------------------------------------
(* One started Bridge with its readers and its command handler *)

\* The stdout lines the subprocess emits in IOSpec.
StdoutLines == {"", "some unrelated text", "Error: boom"}

\* The state in which Start() has returned nil on an open connection: the
\* readers run, the Bridge is connected and "connected" has been published.
IOInit ==
    /\ agents = {}
    /\ mu = "free"
    /\ stopCh = FALSE
    /\ natsClosed = FALSE
    /\ nextID = B
    /\ monitorPc = "idle"
    /\ toCheck = {}
    /\ cur = 0
    /\ stopAllPc = "idle"
    /\ allPending = {}
    /\ proc = [i \in IDs |-> IF i = B THEN "running" ELSE "none"]
    /\ stopPc = [i \in IDs |-> "idle"]
    /\ stopBy = [i \in IDs |-> "none"]
    /\ done = [i \in IDs |-> FALSE]
    /\ expired = [i \in IDs |-> 0]
    /\ sigs = [i \in IDs |-> <<>>]
    /\ removedBy = [i \in IDs |-> "none"]
    /\ crashCalls = [i \in IDs |-> 0]
    /\ startPc = [i \in IDs |-> IF i = B THEN "started" ELSE "none"]
    /\ bstop = [i \in IDs |-> "none"]
    /\ bStopCh = [i \in IDs |-> FALSE]
    /\ connected = [i \in IDs |-> i = B]
    /\ status = [i \in IDs |-> IF i = B THEN "connected" ELSE "none"]
    /\ currentTask = [i \in IDs |-> IF i = B THEN "Aider ready" ELSE ""]
    /\ outPc = [i \in IDs |-> IF i = B THEN "scan" ELSE "none"]
    /\ sawEnd = [i \in IDs |-> FALSE]
    /\ stdinLog = [i \in IDs |-> <<>>]
    /\ closes = [i \in IDs |-> 0]
    /\ stopCalls = [i \in IDs |-> 0]
    /\ apiStops = 0
    /\ nread = [i \in IDs |-> 0]
    /\ outputs = [i \in IDs |-> <<>>]
    /\ published = [i \in IDs |->
                      IF i = B THEN <<<<"connected", "Aider ready">>>> ELSE <<>>]
    /\ ret = <<>>
    /\ tasks = [id \in TaskIDs |-> NoTask]
    /\ stopperPc = [c \in Stoppers |-> "idle"]
    /\ pend = [t \in Threads |-> <<>>]
    /\ all2Pc = "idle"

IONext ==
    \/ ProcExit(B)
    \/ \E line \in StdoutLines : OutLine(B, line)
    \/ \E line \in ErrLines : ErrLine(B, line)
    \/ OutScanEnd(B)
    \/ OutPublishEnd(B)
    \/ OutReturn(B)
    \/ \E msg \in Cmds : HandleCommand(B, msg)
    \/ ApiStop(B)
    \/ StopPublish(B)
    \/ StopCloseBus(B)

IOSpec == IOInit /\ [][IONext]_vars

----------------------------------------------------------------------------
(* One started Bridge and the commands sent to it *)

CmdNext ==
    \/ ProcExit(B)
    \/ \E msg \in Cmds : HandleCommandObs(B, msg)
    \/ OutScanEnd(B)
    \/ OutPublishEnd(B)
    \/ OutReturn(B)
    \/ ApiStop(B)
    \/ StopPublish(B)
    \/ StopCloseBus(B)

CmdSpec == IOInit /\ [][CmdNext]_vars

----------------------------------------------------------------------------
(* The output classifier on its own *)

\* Number of fragments a line given to the classifier is made of.
MaxTokens == 2

\* The fragments: the keywords of the switch in several spellings, the
\* prompt sign, white space and a character no rule looks for.
Tokens ==
    {<<"t", "h", "i", "n", "k", "i", "n", "g">>,
     <<"T", "h", "i", "n", "k", "i", "n", "g">>,
     <<"a", "p", "p", "l", "i", "e", "d", " ", "e", "d", "i", "t">>,
     <<">">>,
     <<" ">>,
     <<"e", "r", "r", "o", "r">>,
     <<"E", "R", "R", "O", "R">>,
     <<"c", "o", "m", "m", "i", "t">>,
     <<"a", "d", "d", "e", "d">>,
     <<"s", "e", "a", "r", "c", "h", "i", "n", "g">>,
     <<"R", "e", "a", "d", "i", "n", "g">>,
     <<"x">>}

RECURSIVE TokenLines(_)
\* The lines made of at most n fragments (the empty line included).
TokenLines(n) ==
    IF n = 0
    THEN {<<>>}
    ELSE TokenLines(n - 1) \cup {l \o t : l \in TokenLines(n - 1), t \in Tokens}

ClassifyInputs == TokenLines(MaxTokens)

\* parseAiderLine applied to the line s; the result is recorded.
ClassifyLine(s) ==
    /\ UNCHANGED <<tasks, concVars>>
    /\ ret' = <<"classify", s, classifyChars(s, s)>>
    /\ UNCHANGED progVars

ClassifyNext == \E s \in ClassifyInputs : ClassifyLine(s)

ClassifySpec == Init /\ [][ClassifyNext]_vars

----------------------------------------------------------------------------
(* The task queue of the operational store *)

\* TaskStatus (interfaces.go, lines 149-156).
TaskStatuses == {"pending", "claimed", "in_progress", "blocked", "completed",
                 "failed"}

\* The inputs drawn: the agents that claim, the progress notes, the
\* summaries.
TaskAgents == {"task-agent", "other-agent"}
TaskNotes == {"Working on it"}
TaskSummaries == {"Task completed successfully"}

\* CreateTask: INSERT of a row with the caller's status, no assignee, no
\* progress, no summary and a NULL completed_at. The id is the primary key.
createTask(t, id, st) ==
    IF t[id].present
    THEN t
    ELSE [t EXCEPT ![id] = [present |-> TRUE, status |-> st,
                            assigned_to |-> "", progress |-> "",
                            summary |-> "", completed_at |-> "null"]]

createError(t, id) ==
    IF t[id].present THEN "UNIQUE constraint failed: tasks.id" ELSE ""

\* ClaimTask whose UPDATE has no status condition.
claimTask_anyStatus(t, id, agent) ==
    IF t[id].present
    THEN [t EXCEPT ![id].status = "claimed", ![id].assigned_to = agent]
    ELSE t

\* ClaimTask: UPDATE ... SET status = 'claimed', assigned_to = ? WHERE id = ?
\* AND status = 'pending'.
claimTask(t, id, agent) ==
    IF t[id].present /\ t[id].status = "pending"
    THEN [t EXCEPT ![id].status = "claimed", ![id].assigned_to = agent]
    ELSE t

\* ClaimTask's error: no row was affected.
claimError(t, id) ==
    IF t[id].present /\ t[id].status = "pending" THEN "" ELSE "task not available"

\* UpdateTaskProgress: UPDATE ... SET status = ?, progress = ? WHERE id = ?;
\* the number of rows affected is not looked at.
updateTaskProgress(t, id, st, note) ==
    IF t[id].present
    THEN [t EXCEPT ![id].status = st, ![id].progress = note]
    ELSE t

\* CompleteTask that leaves completed_at as it is.
completeTask_noTime(t, id, sum) ==
    IF t[id].present
    THEN [t EXCEPT ![id].status = "completed", ![id].summary = sum]
    ELSE t

\* CompleteTask: UPDATE ... SET status = 'completed', summary = ?,
\* completed_at = now WHERE id = ?; the number of rows affected is not looked
\* at.
completeTask(t, id, sum) ==
    IF t[id].present
    THEN [t EXCEPT ![id].status = "completed", ![id].summary = sum,
                   ![id].completed_at = "time"]
    ELSE t

\* GetTask: the row read back into a Task (CompletedAt is nil for a NULL
\* completed_at), or the error of a missing row.
getTask(t, id) ==
    IF t[id].present
    THEN <<[Status |-> t[id].status, AssignedTo |-> t[id].assigned_to,
            Progress |-> t[id].progress, Summary |-> t[id].summary,
            CompletedAt |-> IF t[id].completed_at = "null" THEN "nil" ELSE "set"],
           "">>
    ELSE <<[Status |-> "", AssignedTo |-> "", Progress |-> "", Summary |-> "",
            CompletedAt |-> "nil"],
           "task not found">>

CreateTask(id, st) ==
    /\ tasks' = createTask(tasks, id, st)
    /\ ret' = <<"CreateTask", id, createError(tasks, id)>>
    /\ UNCHANGED progVars

ClaimTask(id, agent) ==
    /\ tasks' = claimTask(tasks, id, agent)
    /\ ret' = <<"ClaimTask", id, claimError(tasks, id)>>
    /\ UNCHANGED progVars

UpdateTaskProgress(id, st, note) ==
    /\ tasks' = updateTaskProgress(tasks, id, st, note)
    /\ ret' = <<"UpdateTaskProgress", id, "">>
    /\ UNCHANGED progVars

CompleteTask(id, sum) ==
    /\ tasks' = completeTask(tasks, id, sum)
    /\ ret' = <<"CompleteTask", id, "">>
    /\ UNCHANGED progVars

GetTask(id) ==
    /\ ret' = <<"GetTask", id, getTask(tasks, id)[2], getTask(tasks, id)[1]>>
    /\ UNCHANGED <<progVars, tasks>>

TaskNext ==
    \/ \E id \in TaskIDs, st \in TaskStatuses : CreateTask(id, st)
    \/ \E id \in TaskIDs, agent \in TaskAgents : ClaimTask(id, agent)
    \/ \E id \in TaskIDs, st \in TaskStatuses, note \in TaskNotes :
         UpdateTaskProgress(id, st, note)
    \/ \E id \in TaskIDs, sum \in TaskSummaries : CompleteTask(id, sum)
    \/ \E id \in TaskIDs : GetTask(id)

TaskSpec == Init /\ [][TaskNext]_vars

----------------------------------------------------------------------------
(* Bridge.Stop called by two goroutines at once *)

\* A close of the closed stopCh is a run-time panic, which ends the program.
NoPanic == \A c \in Stoppers : stopperPc[c] # "panicked"

\* Bridge.Stop, lines 78-82: the select finds stopCh closed and the call
\* returns, or finds it open and takes the default branch.
StopSelect(c) ==
    /\ stopperPc[c] = "idle"
    /\ stopCalls' = [stopCalls EXCEPT ![B] = @ + 1]
    /\ stopperPc' = [stopperPc EXCEPT
                       ![c] = IF bStopCh[B] THEN "returned" ELSE "default"]
    /\ UNCHANGED <<supVars, agentVars, natsClosed, published, startPc, bstop,
                   bStopCh, connected, status, currentTask, outPc, sawEnd,
                   stdinLog, closes, apiStops, nread, outputs, ret, tasks,
                   pend, all2Pc>>

\* Bridge.Stop, line 83: close(b.stopCh), whatever another caller did since
\* the select.
StopClose(c) ==
    /\ stopperPc[c] = "default"
    /\ stopperPc' = [stopperPc EXCEPT
                       ![c] = IF bStopCh[B] THEN "panicked" ELSE "closed"]
    /\ bStopCh' = [bStopCh EXCEPT ![B] = TRUE]
    /\ UNCHANGED <<supVars, agentVars, natsClosed, published, startPc, bstop,
                   connected, status, currentTask, outPc, sawEnd, stdinLog,
                   closes, stopCalls, apiStops, nread, outputs, ret, tasks,
                   pend, all2Pc>>

\* Bridge.Stop, lines 86-102: clear connected, write "/quit", close the
\* handles.
StopHandles(c) ==
    /\ stopperPc[c] = "closed"
    /\ stopperPc' = [stopperPc EXCEPT ![c] = "teardown"]
    /\ bstop' = [bstop EXCEPT ![B] = "torn"]
    /\ connected' = [connected EXCEPT ![B] = FALSE]
    /\ stdinLog' = stdinWrite(B, "/quit")
    /\ closes' = [closes EXCEPT ![B] = @ + 1]
    /\ UNCHANGED <<supVars, agentVars, natsClosed, published, startPc, bStopCh,
                   status, currentTask, outPc, sawEnd, stopCalls, apiStops,
                   nread, outputs, ret, tasks, pend, all2Pc>>

\* Bridge.Stop, line 111: the call that tore the Bridge down returns.
StopReturn(c) ==
    /\ stopperPc[c] = "teardown"
    /\ bstop[B] = "done"
    /\ stopperPc' = [stopperPc EXCEPT ![c] = "returned"]
    /\ UNCHANGED <<supVars, agentVars, bridgeVars, natsClosed, published, ret,
                   tasks, pend, all2Pc>>

StopRaceNext ==
    \/ NoPanic /\ ProcExit(B)
    \/ NoPanic /\ \E line \in StdoutLines : OutLine(B, line)
    \/ NoPanic /\ OutScanEnd(B)
    \/ NoPanic /\ OutPublishEnd(B)
    \/ NoPanic /\ OutReturn(B)
    \/ NoPanic /\ \E c \in Stoppers : StopSelect(c)
    \/ NoPanic /\ \E c \in Stoppers : StopClose(c)
    \/ NoPanic /\ \E c \in Stoppers : StopHandles(c)
    \/ NoPanic /\ StopPublish(B)
    \/ NoPanic /\ StopCloseBus(B)
    \/ NoPanic /\ \E c \in Stoppers : StopReturn(c)

StopRaceSpec == IOInit /\ [][StopRaceNext]_vars

----------------------------------------------------------------------------
(* The status updates of a Bridge, statement by statement *)

\* The stdout lines parseAiderLine classifies.
ClassifiedLines == {l \in Lines : classify(l) # <<>>}

\* A goroutine is between two status updates.
Idle(t) == pend[t] = <<>>

\* parseAiderLine, lines 167-216: the stdout reader classifies a line and
\* assigns status and currentTask under b.mu; the call of publishStatus
\* (line 218) and the publication of the raw line (line 128) are still to
\* come.
OutAssign(line) ==
    /\ Idle("stdout")
    /\ outPc[B] = "scan"
    /\ nread[B] < MaxLines
    /\ nread' = [nread EXCEPT ![B] = @ + 1]
    /\ status' = [status EXCEPT ![B] = classify(line)[1]]
    /\ currentTask' = [currentTask EXCEPT ![B] = classify(line)[2]]
    /\ pend' = [pend EXCEPT !["stdout"] = <<"call", classify(line)[1],
                                            classify(line)[2], <<line>>>>]
    /\ UNCHANGED <<supVars, agentVars, natsClosed, published, startPc, bstop,
                   bStopCh, connected, outPc, sawEnd, stdinLog, closes,
                   stopCalls, apiStops, outputs, ret, tasks, stopperPc,
                   all2Pc>>

\* parseAiderErrors, lines 152-157: the stderr reader publishes the raw line
\* and, for a line containing "error", is about to call publishStatus.
ErrAssign(line) ==
    /\ Idle("stderr")
    /\ ErrRead(B) < MaxErrLines
    /\ publishOutput(B, "stderr", line)
    /\ pend' = [pend EXCEPT !["stderr"] =
                  IF Contains(ToLower(chars(line)), <<"e", "r", "r", "o", "r">>)
                  THEN <<"call", "error", line, <<>>>>
                  ELSE <<>>]
    /\ UNCHANGED <<supVars, agentVars, natsClosed, published, startPc, bstop,
                   bStopCh, connected, status, currentTask, outPc, sawEnd,
                   stdinLog, closes, stopCalls, apiStops, nread, ret, tasks,
                   stopperPc, all2Pc>>

\* handleCommand, lines 233-265, up to its call of publishStatus: a prompt
\* assigns currentTask (line 237); stop, clear, add and drop write their line
\* to stdin; the prompt's text is written after the call (line 241).
CmdAssign(msg) ==
    /\ Idle("cmd")
    /\ cmdStatus(msg) # <<>>
    /\ CmdsHandled(B) < MaxCmds
    /\ IF msg[2] = "prompt"
       THEN /\ currentTask' = [currentTask EXCEPT ![B] = msg[3][1]]
            /\ stdinLog' = stdinLog
       ELSE /\ currentTask' = currentTask
            /\ stdinLog' = stdinWrite(B, cmdLine(msg)[1])
    /\ pend' = [pend EXCEPT !["cmd"] =
                  <<"call", cmdStatus(msg)[1], cmdStatus(msg)[2],
                    IF msg[2] = "prompt" THEN <<msg[3][1]>> ELSE <<>>>>]
    /\ UNCHANGED <<supVars, agentVars, natsClosed, published, startPc, bstop,
                   bStopCh, connected, status, outPc, sawEnd, closes,
                   stopCalls, apiStops, nread, outputs, ret, tasks, stopperPc,
                   all2Pc>>

\* publishStatus, lines 275-278: record the pair under b.mu.
Record(t) ==
    /\ pend[t] # <<>>
    /\ pend[t][1] = "call"
    /\ status' = [status EXCEPT ![B] = pend[t][2]]
    /\ currentTask' = [currentTask EXCEPT ![B] = pend[t][3]]
    /\ pend' = [pend EXCEPT ![t] = <<"recorded", pend[t][2], pend[t][3],
                                      pend[t][4]>>]
    /\ UNCHANGED <<supVars, agentVars, natsClosed, published, startPc, bstop,
                   bStopCh, connected, outPc, sawEnd, stdinLog, closes,
                   stopCalls, apiStops, nread, outputs, ret, tasks, stopperPc,
                   all2Pc>>

\* publishStatus, lines 280-290: publish the pair the call was given. Back
\* in the caller, the stdout reader publishes the raw line (line 128) and a
\* prompt writes its text to stdin (line 241).
Publish(t) ==
    /\ pend[t] # <<>>
    /\ pend[t][1] = "recorded"
    /\ published' = IF natsClosed
                    THEN published
                    ELSE [published EXCEPT ![B] = Append(@, <<pend[t][2], pend[t][3]>>)]
    /\ IF t = "stdout"
       THEN publishOutput(B, "stdout", pend[t][4][1])
       ELSE outputs' = outputs
    /\ stdinLog' = IF t = "cmd" /\ pend[t][4] # <<>>
                   THEN stdinWrite(B, pend[t][4][1])
                   ELSE stdinLog
    /\ pend' = [pend EXCEPT ![t] = <<>>]
    /\ UNCHANGED <<supVars, agentVars, natsClosed, startPc, bstop, bStopCh,
                   connected, status, currentTask, outPc, sawEnd, closes,
                   stopCalls, apiStops, nread, ret, tasks, stopperPc, all2Pc>>

StatusRaceNext ==
    \/ \E line \in ClassifiedLines : OutAssign(line)
    \/ \E line \in ErrLines : ErrAssign(line)
    \/ \E msg \in Cmds : CmdAssign(msg)
    \/ \E t \in Threads : Record(t)
    \/ \E t \in Threads : Publish(t)

StatusRaceSpec == IOInit /\ [][StatusRaceNext]_vars

----------------------------------------------------------------------------
(* Spawner.StopAll called again *)

\* No goroutine has panicked: the program is running.
Running == all2Pc = "idle"

\* StopAll, line 553, in a call that reaches it after another call did:
\* close(s.stopCh) on the closed channel is a run-time panic, which ends the
\* program.
StopAllAgain ==
    /\ Running
    /\ stopAllPc # "idle"
    /\ stopCh
    /\ all2Pc' = "panicked"
    /\ UNCHANGED <<supVars, agentVars, bridgeVars, natsClosed, published, ret,
                   tasks, stopperPc, pend>>

ShutdownNext ==
    \/ Running /\ (\E id \in IDs : ProcExit(id))
    \/ Running /\ (\E path \in Paths, startOK \in BOOLEAN : SpawnAgent(path, startOK))
    \/ Running /\ (\E id \in IDs : StopAgentCall(id))
    \/ Running /\ (\E id \in IDs : StopAgentBridgeStop(id))
    \/ Running /\ (\E id \in IDs : StopAgentSendQuit(id))
    \/ Running /\ (\E id \in IDs : WaitReturn(id))
    \/ Running /\ (\E id \in IDs, err \in BOOLEAN : StopAgentExited(id, err))
    \/ Running /\ (\E id \in IDs : StopAgentTimeout5(id))
    \/ Running /\ (\E id \in IDs : StopAgentSigterm(id))
    \/ Running /\ (\E id \in IDs : StopAgentExitedAfterTerm(id))
    \/ Running /\ (\E id \in IDs : StopAgentTimeout3(id))
    \/ Running /\ (\E id \in IDs : StopAgentKill(id))
    \/ Running /\ (\E id \in IDs : StopAgentReaped(id))
    \/ Running /\ Tick
    \/ Running /\ (\E id \in IDs : CheckAlive(id))
    \/ Running /\ (\E id \in IDs : CheckCrashed(id))
    \/ Running /\ CheckRemove
    \/ Running /\ CheckDone
    \/ Running /\ MonitorExit
    \/ Running /\ StopAllSignal
    \/ Running /\ StopAllSnapshot
    \/ Running /\ (\E id \in IDs : StopAllTask(id))
    \/ Running /\ StopAllReturn
    \/ StopAllAgain

ShutdownSpec == Init /\ [][ShutdownNext]_vars

----------------------------------------------------------------------------
(* Properties of the Supervisor *)

\* SpawnAgent has inserted the agent into the live set at some point.
Tracked(id) == startPc[id] = "started"

\* The cmd.Wait() of the agent's StopAgent call has returned.
ConfirmedStopped(id) == done[id]

\* A probe of the poller has failed for the agent.
ConfirmedCrashed(id) == cur = id \/ removedBy[id] = "crash"

\* The crash notification publishCrash sends.
CrashNote == <<"crashed", "Aider process crashed">>

\* Number of crash notifications delivered for the agent.
CrashNotes(id) ==
    Cardinality({i \in DOMAIN published[id] : published[id][i] = CrashNote})

\* Number of "disconnected / Bridge stopped" events delivered for the agent.
StopPublishes(id) ==
    Cardinality({i \in DOMAIN published[id] :
                    published[id][i] = <<"disconnected", "Bridge stopped">>})

\* C1, as stated: a tracked agent is in the live set if and only if its
\* process has been neither confirmed stopped (Wait returned in StopAgent) nor
\* confirmed crashed (probe failed in the poller).
C1_LiveIffUnconfirmed ==
    \A id \in IDs :
        Tracked(id) =>
            (id \in agents <=> ~ConfirmedStopped(id) /\ ~ConfirmedCrashed(id))

\* C1, amended: an agent in the live set is tracked, has not been confirmed
\* stopped, and has been confirmed crashed only inside the critical section of
\* the very checkAgents call that is about to delete it; and a tracked agent
\* that is not in the live set was removed by a StopAgent call (which removes
\* it before its process is confirmed stopped) or by crash handling.
C1_LiveImpliesUnconfirmed ==
    /\ \A id \in agents :
          /\ Tracked(id)
          /\ ~ConfirmedStopped(id)
          /\ ConfirmedCrashed(id) => (mu = "check" /\ cur = id)
    /\ \A id \in IDs :
          (Tracked(id) /\ id \notin agents) => removedBy[id] \in {"stop", "crash"}

\* C1: one agent is live while another, removed by StopAgent, is not yet
\* confirmed stopped.
C1_Witness ==
    \E i \in agents, j \in IDs :
        Tracked(j) /\ j \notin agents /\ removedBy[j] = "stop" /\ ~done[j]

\* C4: StopAgent on a tracked agent returns nil only once cmd.Wait() has
\* returned and the process is reaped, whichever stage got there, and returns
\* an error only from the failed forced kill at the end of both timeouts; the
\* first select returns nil whatever exit status it receives.
C4_StopAgentResult ==
    \A id \in IDs :
        /\ stopPc[id] = "nil" => (done[id] /\ proc[id] = "reaped")
        /\ stopPc[id] = "err" =>
              /\ expired[id] = 2
              /\ sigs[id] = <<"TERM", "KILL">>
              /\ proc[id] = "reaped"

\* C4: one StopAgent call returned nil from its first select and another
\* returned the error of the forced kill.
C4_Witness ==
    \E i, j \in IDs :
        /\ stopPc[i] = "nil" /\ expired[i] = 0
        /\ stopPc[j] = "err"

\* C5: for a tracked agent the Spawner sends SIGTERM only after the first
\* timer was taken, the forced kill only after SIGTERM and the second timer,
\* and nothing when StopAgent returned from its first select.
C5_EscalationOrder ==
    \A id \in IDs :
        Tracked(id) =>
            /\ sigs[id] \in {<<>>, <<"TERM">>, <<"TERM", "KILL">>}
            /\ Len(sigs[id]) <= expired[id]
            /\ (stopPc[id] \in {"nil", "err"} /\ expired[id] = 0) => sigs[id] = <<>>

\* C5: a StopAgent call went through both timeouts and the forced kill.
C5_Witness ==
    \E id \in IDs :
        Tracked(id) /\ sigs[id] = <<"TERM", "KILL">> /\ stopPc[id] = "nil"

\* C6: once a StopAgent call has removed an agent, the poller never visits it,
\* never calls Stop() on its Bridge (the only Stop() call is StopAgent's own)
\* and never publishes a crash notification for it.
C6_StoppedNeverCrashHandled ==
    \A id \in IDs :
        stopPc[id] # "idle" =>
            /\ id \notin agents
            /\ id \notin toCheck
            /\ cur # id
            /\ removedBy[id] = "stop"
            /\ crashCalls[id] = 0
            /\ CrashNotes(id) = 0
            /\ stopCalls[id] <= 1

\* C6: the poller is ranging over the live set while the process of an agent
\* that StopAgent removed has terminated and is not yet reaped.
C6_Witness ==
    \E id \in IDs :
        /\ stopPc[id] = "wait5"
        /\ proc[id] = "exited"
        /\ monitorPc = "scan"
        /\ toCheck # {}

\* C7, in its finite form: once a poll tick has found the process of a tracked
\* agent gone and handled it, the agent is out of the live set and a crash
\* notification for it has been published.
C7_CrashNotified ==
    \A id \in IDs :
        removedBy[id] = "crash" => (id \notin agents /\ CrashNotes(id) >= 1)

\* C8: in every step of a poll tick, an agent is crash-handled only if its
\* probe can fail; handling it leaves its Bridge stopped, removes it from the
\* live set and publishes one crash notification; an agent whose probe
\* succeeded is left untouched; and no agent has more than one notification.
C8_TickCrashHandling ==
    [][\A id \in IDs :
          /\ (cur' = id /\ cur # id) => (id \in agents /\ proc[id] # "running")
          /\ (crashCalls'[id] # crashCalls[id]) =>
                /\ bStopCh'[id]
                /\ id \notin agents'
                /\ CrashNotes(id)' = CrashNotes(id) + 1
          /\ (monitorPc = "scan" /\ id \in toCheck /\ id \notin toCheck') =>
                (id \in agents' /\ UNCHANGED <<bridgeVars, published>>)
          /\ CrashNotes(id)' <= 1
      ]_vars

\* C9: at the step in which StopAll() returns, the live set is empty and the
\* poller has exited.
C9_EmptyAtReturn ==
    [][(stopAllPc # "returned" /\ stopAllPc' = "returned") =>
          (agents' = {} /\ monitorPc' = "exited")]_vars

\* C10: StopAll(), once called, eventually returns, whatever the number of
\* tracked agents; by then every StopAgent task it launched has returned and
\* the poller goroutine has exited.
C10_StopAllReturns ==
    /\ (stopAllPc = "snap") ~> (stopAllPc = "returned")
    /\ [](stopAllPc = "returned" =>
             (monitorPc = "exited" /\ \A id \in IDs : TaskDone(id)))

\* C10: StopAll() has returned after a task of it drove an agent through the
\* forced kill.
C10_Witness ==
    /\ stopAllPc = "returned"
    /\ \E id \in IDs :
          stopBy[id] = "all" /\ stopPc[id] = "nil" /\ sigs[id] = <<"TERM", "KILL">>

----------------------------------------------------------------------------
(* Properties of one Bridge *)

\* C2: IsConnected() is true only after Start() has marked the Bridge
\* connected, and never once Stop() has been called or the stdout reader has
\* detected the end of the stream.
C2_ConnectedOnlyWhileOpen ==
    connected[B] =>
        /\ startPc[B] \in {"marked", "started"}
        /\ ~bStopCh[B]
        /\ ~sawEnd[B]

\* C3: over two Stop() calls on one Bridge exactly one "disconnected / Bridge
\* stopped" event is published, and the second call changes nothing: no write
\* to stdin, no handle closed, no event published.
C3_StopTwiceOnePublish ==
    [][/\ StopPublishes(B)' <= 1
       /\ bstop'[B] = "done" => StopPublishes(B)' = 1
       /\ closes'[B] <= 1
       /\ (stopCalls'[B] # stopCalls[B] /\ bStopCh[B]) =>
             UNCHANGED <<stdinLog, closes, published, outputs, bstop, bStopCh,
                         connected, status, currentTask, natsClosed>>
      ]_vars

\* C3: Stop() was called twice and both calls have returned.
C3_Witness ==
    /\ apiStops = 2
    /\ stopCalls[B] = 2
    /\ bstop[B] = "done"
    /\ StopPublishes(B) = 1

----------------------------------------------------------------------------
(* Spawning *)

C12_BadPathRejected ==
    [][(\E path \in {"", "missing"}, startOK \in BOOLEAN :
           SpawnAgentRet(path, startOK))
         => /\ ret'[1] = "SpawnAgent"
            /\ ret'[2] \in {"", "missing"}
            /\ ret'[3] \in {"project path is required",
                            "project path does not exist"}
            /\ ret'[4] = 0
            /\ UNCHANGED progVars]_vars

\* A call with a non-existent path was rejected while an agent was live.
C12_Witness ==
    /\ ret # <<>>
    /\ ret[1] = "SpawnAgent"
    /\ ret[2] = "missing"
    /\ ret[3] = "project path does not exist"
    /\ agents # {}
    /\ nextID < MaxAgents

\* C13: when bridge.Start() fails inside SpawnAgent, no reader was launched,
\* the process was sent a forced kill, the agent is not in the live set, and
\* the process of the failed spawn is neither running nor unreclaimed (it was
\* waited for).
C13_FailedStartCleansUp ==
    \A id \in IDs :
        startPc[id] = "failed"
            => /\ outPc[id] = "none"
               /\ ~connected[id]
               /\ sigs[id] = <<"KILL">>
               /\ id \notin agents
               /\ proc[id] = "reaped"

\* How many times Start() of the Bridge of agent id went through: each
\* successful Start() publishes one "connected / Aider ready" event.
StartsDelivered(id) ==
    Cardinality({i \in 1..Len(published[id]) :
                    published[id][i] = <<"connected", "Aider ready">>})

\* C14: every agent in the live set, and every agent SpawnAgent returned
\* without error, has a process that was started and a Bridge whose Start()
\* succeeded, exactly once; the Bridge state is kept per agent, so no two
\* agents have the same Bridge and an agent's Bridge is the one it was
\* created with.
C14_LiveAgentsStarted ==
    /\ \A id \in agents :
         /\ proc[id] # "none"
         /\ startPc[id] = "started"
         /\ StartsDelivered(id) = 1
    /\ (ret # <<>> /\ ret[1] = "SpawnAgent" /\ ret[3] = "")
         => /\ ret[4] \in IDs
            /\ proc[ret[4]] # "none"
            /\ startPc[ret[4]] = "started"
            /\ StartsDelivered(ret[4]) = 1

\* A returned agent is live beside another one, and its process, started by
\* SpawnAgent, has since terminated.
C14_Witness ==
    /\ ret # <<>>
    /\ ret[1] = "SpawnAgent"
    /\ ret[3] = ""
    /\ ret[4] \in agents
    /\ proc[ret[4]] = "exited"
    /\ Cardinality(agents) > 1

----------------------------------------------------------------------------
(* Stopping *)

\* C15: a StopAgent call for an ID that is not in the live set (never
\* spawned, or already removed by StopAgent or by crash handling) reports
\* "not found" and changes nothing: the live set, every Bridge, every process
\* and the signals sent are what they were; a call for an ID in the live set
\* does not report "not found".
C15_UnknownIdNoEffect ==
    [][\A id \in IDs :
         StopAgentRet(id)
           => /\ ret' = <<"StopAgent", id, lookupResult(id)>>
              /\ (id \notin agents) <=> (ret'[3] = "not found")
              /\ (id \notin agents) => UNCHANGED progVars]_vars

\* A second StopAgent for an agent the first StopAgent removed was answered
\* "not found" while another agent was live.
C15_Witness ==
    /\ ret # <<>>
    /\ ret[1] = "StopAgent"
    /\ ret[3] = "not found"
    /\ removedBy[ret[2]] = "stop"
    /\ bStopCh[ret[2]]
    /\ agents # {}

\* The same after crash handling removed the agent.
C15_WitnessCrash ==
    /\ ret # <<>>
    /\ ret[1] = "StopAgent"
    /\ ret[3] = "not found"
    /\ removedBy[ret[2]] = "crash"

\* Bridge id can deliver what it publishes and can be delivered commands: the
\* client it holds is open.
CanPublish(id) == ~natsClosed

\* C16: stopping or crash-handling one agent leaves every other live agent's
\* Bridge state alone and leaves it able to publish and to receive commands:
\* a live agent whose own Bridge was never stopped can publish.
C16_AgentsIndependent ==
    \A id \in agents :
        (startPc[id] = "started" /\ ~bStopCh[id]) => CanPublish(id)

\* The part of C16 about the Bridge's own fields: a step that stops the
\* Bridge of one agent changes no field of another agent's Bridge.
C16_OtherBridgeFieldsKept ==
    [][\A i, j \in IDs :
         (i # j /\ bStopCh'[i] # bStopCh[i])
           => /\ connected'[j] = connected[j]
              /\ status'[j] = status[j]
              /\ currentTask'[j] = currentTask[j]
              /\ bStopCh'[j] = bStopCh[j]
              /\ closes'[j] = closes[j]
              /\ outPc'[j] = outPc[j]]_vars

\* The StopAgent call for agent id is in its 5-second or its 3-second wait.
InWait(id) == stopPc[id] \in {"wait5", "wait3"}

\* C17: while a StopAgent call is in its 5-second or 3-second wait s.mu is
\* not held by it: the lock is free, or held by the poller, which goes on to
\* release it; with the lock free a StopAgent for any live agent, GetAgent,
\* ListAgents and the next tick can take it; and the steps of another
\* StopAgent call that are not waits can be taken.
C17_WaitHoldsNoLock ==
    \A i \in IDs :
        InWait(i) =>
            /\ mu \in {"free", "check"}
            /\ mu = "check" => (monitorPc # "idle" /\ ENABLED CheckStep)
            /\ mu = "free" =>
                 /\ \A j \in agents : ENABLED StopAgentCall(j)
                 /\ \A j \in IDs : ENABLED GetAgentRet(j)
                 /\ ENABLED ListAgentsRet
                 /\ monitorPc = "idle" => ENABLED Tick
            /\ \A j \in IDs \ {i} :
                 stopPc[j] \in {"removed", "stopped", "sigterm", "kill", "reap"}
                    => ENABLED (StopAgentStep(j) \/ WaitReturn(j))

\* While one StopAgent call, made over HTTP, is still in its first wait with
\* its process running, a StopAgent call for another agent has returned nil
\* and the poller has handled nothing as a crash.
C17_Witness ==
    \E i, j \in IDs :
        /\ i # j
        /\ stopPc[i] = "wait5" /\ proc[i] = "running" /\ expired[i] = 0
        /\ stopBy[i] = "http" /\ stopBy[j] = "http"
        /\ stopPc[j] = "nil"
        /\ mu = "free"

----------------------------------------------------------------------------
(* Bridge status *)

\* What GetStatus() returns for Bridge id (lines 307-311).
GetStatus(id) == status[id]

\* C18: "disconnected" is terminal: once GetStatus() of a Bridge reports
\* "disconnected" it reports nothing else afterwards, whatever the reader,
\* the command handler, Start() and Stop() do.
C18_DisconnectedTerminal ==
    [][GetStatus(B) = "disconnected" => GetStatus(B)' = "disconnected"]_vars

\* The status events delivered for Bridge id include a "disconnected" one.
DisconnectedDelivered(id) ==
    \E i \in 1..Len(published[id]) : published[id][i][1] = "disconnected"

\* C19: when the stdout reader leaves its loop because Scan() returned false
\* (EOF or read error, one path for both) it clears connected and then
\* publishes "disconnected / Aider process ended": the status is recorded,
\* the event is delivered while the Bridge's connection is open, and a
\* "disconnected" event has been delivered in any case; after the loop has
\* ended the reader never scans again.
C19_ReaderEndDisconnects ==
    [][/\ (outPc[B] = "scan" /\ outPc'[B] = "eof")
            => (~connected'[B] /\ sawEnd'[B])
       /\ outPc[B] = "eof" => outPc'[B] \in {"eof", "ended"}
       /\ (outPc[B] = "eof" /\ outPc'[B] = "ended")
            => /\ status'[B] = "disconnected"
               /\ currentTask'[B] = "Aider process ended"
               /\ ~natsClosed =>
                    published'[B] = Append(published[B],
                                       <<"disconnected", "Aider process ended">>)
               /\ DisconnectedDelivered(B)'
       /\ outPc[B] \in {"eof", "ended", "returned"}
            => (outPc'[B] # "scan" /\ nread'[B] = nread[B])]_vars

\* The reader ended on a read error (Stop() closed the handle of a running
\* process) and its "disconnected" event was delivered.
C19_Witness ==
    /\ outPc[B] = "ended"
    /\ proc[B] = "running"
    /\ closes[B] > 0
    /\ published[B] # <<>>
    /\ published[B][Len(published[B])] = <<"disconnected", "Aider process ended">>

\* The reader ended on EOF (the process exited, no Stop()) and its
\* "disconnected" event was delivered.
C19_WitnessEOF ==
    /\ outPc[B] = "ended"
    /\ proc[B] = "exited"
    /\ closes[B] = 0
    /\ published[B] # <<>>
    /\ published[B][Len(published[B])] = <<"disconnected", "Aider process ended">>

\* C20: every line the stdout reader of a running Bridge takes from the
\* scanner produces exactly one output event (stream "stdout", the line as
\* read), whether or not the line is classified, appended in read order; the
\* line's status event, if it is classified, is appended to the status events
\* in the same order; so there are as many output events as lines read.
C20_OneOutputPerLine ==
    [][nread'[B] # nread[B]
         => /\ nread'[B] = nread[B] + 1
            /\ Len(outputs'[B]) = nread'[B]
            /\ \E line \in Lines :
                 /\ outputs'[B] = Append(outputs[B], <<"stdout", line>>)
                 /\ published'[B] =
                      IF classify(line) = <<>>
                      THEN published[B]
                      ELSE Append(published[B], classify(line))]_vars

\* "Thinking..." then "> " were read: two output events in that order, and
\* (working, "Thinking...") delivered before (idle, "Awaiting prompt").
C20_Witness ==
    /\ outputs[B] = <<<<"stdout", "Thinking...">>, <<"stdout", "> ">>>>
    /\ \E i, j \in 1..Len(published[B]) :
         /\ i < j
         /\ published[B][i] = <<"working", "Thinking...">>
         /\ published[B][j] = <<"idle", "Awaiting prompt">>

\* A line that is not classified was read: one output event and no status
\* event for it.
C20_WitnessUnclassified ==
    /\ outputs[B] = <<<<"stdout", "some unrelated text">>>>
    /\ published[B] = <<<<"connected", "Aider ready">>>>

----------------------------------------------------------------------------
(* Classifier and stream readers *)

\* The rules of the classifier in their fixed order: how the rule matches,
\* what it looks for, and the status and task it gives.
Rules ==
    <<<<"contains", <<"t", "h", "i", "n", "k", "i", "n", "g">>, "working", "Thinking...">>,
      <<"contains", <<"a", "p", "p", "l", "i", "e", "d", " ", "e", "d", "i", "t">>, "working", "Applied edit to files">>,
      <<"prefix", <<">">>, "idle", "Awaiting prompt">>,
      <<"contains", <<"e", "r", "r", "o", "r">>, "error", "verbatim">>,
      <<"contains", <<"c", "o", "m", "m", "i", "t">>, "working", "Committing changes">>,
      <<"contains", <<"a", "d", "d", "e", "d">>, "working", "Adding files to context">>,
      <<"contains", <<"s", "e", "a", "r", "c", "h", "i", "n", "g">>, "working", "Searching codebase">>,
      <<"contains", <<"r", "e", "a", "d", "i", "n", "g">>, "working", "Reading files">>>>

\* Rule k matches the line s.
RuleMatches(k, s) ==
    IF Rules[k][1] = "prefix"
    THEN TrimmedHasPrefixGT(s)
    ELSE Contains(ToLower(s), Rules[k][2])

\* The rules matching the line s.
Matching(s) == {k \in 1..Len(Rules) : RuleMatches(k, s)}

\* What rule k gives for the line s.
RuleResult(k, s) ==
    <<Rules[k][3], IF Rules[k][4] = "verbatim" THEN s ELSE Rules[k][4]>>

\* C22: the classifier is first-match-wins over the order thinking, applied
\* edit, leading ">", error, commit, added, searching, reading: the result
\* for a line is what the first matching rule gives, and no transition when
\* no rule matches; a line with "thinking" and "error" gives (working,
\* "Thinking..."), a line matching only the error rule gives (error, the
\* line), a line starting with ">" without "thinking" or "applied edit"
\* gives (idle, "Awaiting prompt").
C22_FirstMatchWins ==
    (ret # <<>> /\ ret[1] = "classify") =>
        LET s == ret[2]
            M == Matching(s)
        IN  /\ ret[3] = IF M = {}
                        THEN <<>>
                        ELSE RuleResult(CHOOSE k \in M : \A j \in M : k <= j, s)
            /\ ({1, 4} \subseteq M) => ret[3] = <<"working", "Thinking...">>
            /\ (M = {4}) => ret[3] = <<"error", s>>
            /\ (3 \in M /\ 1 \notin M /\ 2 \notin M)
                  => ret[3] = <<"idle", "Awaiting prompt">>

\* A line with "error" before "Thinking" in it was classified as thinking.
C22_Witness ==
    /\ ret # <<>>
    /\ ret[1] = "classify"
    /\ ret[2] = <<"E", "R", "R", "O", "R", "T", "h", "i", "n", "k", "i", "n", "g">>
    /\ ret[3] = <<"working", "Thinking...">>

\* C21: every line the stderr reader takes from the scanner produces one
\* output event (stream "stderr", the line as read); a status event (error,
\* the line verbatim) is published as well exactly when the line contains
\* "error" in any case, and no status event otherwise.
C21_StderrLine ==
    [][\A line \in ErrLines :
         ErrLine(B, line)
           => /\ outputs'[B] = Append(outputs[B], <<"stderr", line>>)
              /\ ErrRead(B)' = ErrRead(B) + 1
              /\ IF Contains(ToLower(chars(line)), <<"e", "r", "r", "o", "r">>)
                 THEN /\ published'[B] = Append(published[B], <<"error", line>>)
                      /\ status'[B] = "error"
                      /\ currentTask'[B] = line
                 ELSE /\ published'[B] = published[B]
                      /\ status'[B] = status[B]
                      /\ currentTask'[B] = currentTask[B]]_vars

\* The stderr line "Error: boom" was read: one output event, and the status
\* event (error, "Error: boom") after "connected".
C21_Witness ==
    /\ outputs[B] = <<<<"stderr", "Error: boom">>>>
    /\ published[B] = <<<<"connected", "Aider ready">>, <<"error", "Error: boom">>>>
    /\ status[B] = "error"

\* A stderr line without "error" was read: one output event, no status event.
C21_WitnessPlain ==
    /\ outputs[B] = <<<<"stderr", "some unrelated text">>>>
    /\ published[B] = <<<<"connected", "Aider ready">>>>

\* C23: a stdout line that no rule of the classifier matches (the empty line
\* and unrelated text among them) causes no transition: status and task stay
\* what they were and no status event is published, while the raw line is
\* still published as an output event.
C23_NoMatchNoTransition ==
    [][\A line \in StdoutLines :
         (OutLine(B, line) /\ Matching(chars(line)) = {})
           => /\ line \in {"", "some unrelated text"}
              /\ status'[B] = status[B]
              /\ currentTask'[B] = currentTask[B]
              /\ published' = published
              /\ outputs'[B] = Append(outputs[B], <<"stdout", line>>)]_vars

\* The empty line was read after a status was set by an error line: the
\* status is still the one of the error line, and both lines were published
\* as output.
C23_Witness ==
    /\ outputs[B] = <<<<"stdout", "Error: boom">>, <<"stdout", "">>>>
    /\ status[B] = "error"
    /\ currentTask[B] = "Error: boom"
    /\ published[B] = <<<<"connected", "Aider ready">>, <<"error", "Error: boom">>>>

----------------------------------------------------------------------------
(* Commands *)

\* The subprocess of Bridge id can be written to: the Bridge has not closed
\* its stdin handle and the process reads the other end.
StdinOpen(id) == closes[id] = 0 /\ proc[id] = "running"

\* What GetStatus() returns for Bridge id: the status and the current task
\* (line 310).
GetStatusPair(id) == <<status[id], currentTask[id]>>

\* C24: a prompt command with text T handled by a connected Bridge whose
\* subprocess runs writes exactly one line, T, to the subprocess stdin and
\* publishes exactly one status event, (working, "Processing prompt").
C24_PromptWritesAndPublishes ==
    [][\A msg \in Cmds :
         (/\ handleCommand(B, msg)
          /\ msg[1] /\ msg[2] = "prompt" /\ msg[3] # <<>>
          /\ connected[B]
          /\ StdinOpen(B))
           => /\ stdinLog'[B] = Append(stdinLog[B], msg[3][1])
              /\ published'[B] =
                   Append(published[B], <<"working", "Processing prompt">>)
              /\ outputs' = outputs]_vars

\* The prompt "fix the bug" was handled by the connected Bridge: the line is
\* on stdin and the status event follows "connected".
C24_Witness ==
    /\ connected[B]
    /\ stdinLog[B] = <<"fix the bug">>
    /\ published[B] = <<<<"connected", "Aider ready">>,
                        <<"working", "Processing prompt">>>>

\* C25: once a prompt command with text T has been handled, and until the
\* next status update, GetStatus() returns status working and task T.
C25_TaskIsPromptText ==
    [][\A msg \in Cmds :
         (/\ handleCommand(B, msg)
          /\ msg[1] /\ msg[2] = "prompt" /\ msg[3] # <<>>)
           => GetStatusPair(B)' = <<"working", msg[3][1]>>]_vars

\* The command table as the specification gives it: the line a well-formed
\* command writes to stdin and the status it publishes.
ExpectedLine(msg) ==
    CASE msg[2] = "stop"  -> "/quit"
      [] msg[2] = "clear" -> "/clear"
      [] msg[2] = "add"   -> "/add " \o msg[3][1]
      [] msg[2] = "drop"  -> "/drop " \o msg[3][1]

ExpectedStatus(msg) ==
    CASE msg[2] = "stop"  -> "stopping"
      [] msg[2] = "clear" -> "working"
      [] msg[2] = "add"   -> "working"
      [] msg[2] = "drop"  -> "working"

TableCmd(msg) ==
    /\ msg[1]
    /\ \/ msg[2] \in {"stop", "clear"}
       \/ msg[2] \in {"add", "drop"} /\ msg[3] # <<>>

\* C26: a stop, clear, add or drop command writes exactly one line to stdin,
\* "/quit", "/clear", "/add F" or "/drop F", and publishes exactly one status
\* event, with status stopping for stop and working for the others, the
\* task of clear being "Clearing chat history".
C26_CommandTable ==
    [][\A msg \in Cmds :
         (/\ handleCommand(B, msg)
          /\ TableCmd(msg)
          /\ StdinOpen(B))
           => /\ stdinLog'[B] = Append(stdinLog[B], ExpectedLine(msg))
              /\ Len(published'[B]) = Len(published[B]) + 1
              /\ published'[B][Len(published'[B])][1] = ExpectedStatus(msg)
              /\ status'[B] = ExpectedStatus(msg)
              /\ msg[2] = "clear"
                   => published'[B][Len(published'[B])] = <<"working", "Clearing chat history">>]_vars

C26_Witness ==
    /\ stdinLog[B] = <<"/drop main.go">>
    /\ published[B] = <<<<"connected", "Aider ready">>, <<"working", "Dropping file: main.go">>>>

C26_WitnessStop ==
    /\ stdinLog[B] = <<"/quit">>
    /\ status[B] = "stopping"

\* A message handleCommand has nothing to do for: it does not decode (lines
\* 225-228), its type is none of the five cases (line 268), or its payload
\* lacks the string the case reads (lines 235, 256, 263).
BadCmd(msg) ==
    \/ ~msg[1]
    \/ msg[2] \notin {"prompt", "stop", "clear", "add", "drop"}
    \/ msg[2] \in {"prompt", "add", "drop"} /\ msg[3] = <<>>

\* C27: a message that does not decode, has an unknown type, or lacks its
\* payload key changes nothing: no stdin write, status and task unchanged, no
\* status event, no reply; and the handler returns, so that a later command
\* is still processed.
C27_BadCommandNoEffect ==
    [][\A msg \in Cmds :
         (handleCommand(B, msg) /\ BadCmd(msg))
           => /\ UNCHANGED progVars
              /\ \A good \in Cmds : (ENABLED handleCommand(B, good))
                                       => (ENABLED handleCommand(B, good))']_vars

C27_Witness ==
    /\ ret = <<"handleCommand", <<TRUE, "add", <<>>>>>>
    /\ stdinLog[B] = <<>>
    /\ published[B] = <<<<"connected", "Aider ready">>>>
    /\ ENABLED handleCommand(B, <<TRUE, "prompt", <<"fix the bug">>>>)

C27_WitnessLater ==
    /\ ret = <<"handleCommand", <<TRUE, "prompt", <<"fix the bug">>>>>>
    /\ stdinLog[B] = <<"fix the bug">>
    /\ connected[B]

\* C30: a command delivered after Stop() was called on the Bridge writes
\* nothing to stdin, leaves status and task as they were and publishes no
\* status event.
C30_NoCommandAfterStop ==
    [][\A msg \in Cmds :
         (handleCommand(B, msg) /\ bStopCh[B])
           => UNCHANGED <<stdinLog, status, currentTask, published>>]_vars

(* Queries of the Supervisor *)

\* C28: ListAgents returns the live set as it is at one instant at which no
\* SpawnAgent, StopAgent or crash handling is inside its critical section,
\* and a list once returned is not altered by later changes of the live set;
\* GetAgent(id) returns the tracked agent, or nothing, of such an instant.
C28_ListIsSnapshot ==
    [][/\ ListAgentsRet
            => /\ mu = "free"
               /\ monitorPc # "crashed"
               /\ ret'[2] = agents
               /\ agents' = agents
       /\ \A id \in IDs :
            GetAgentRet(id)
              => /\ mu = "free"
                 /\ ret'[3] = (IF id \in agents THEN id ELSE 0)
                 /\ agents' = agents
       /\ (ret # <<>> /\ ret[1] = "ListAgents" /\ agents' # agents)
            => (ret' = ret \/ ret'[1] # "ListAgents")]_vars

C28_Witness ==
    /\ ret # <<>>
    /\ ret[1] = "ListAgents"
    /\ ret[2] # {}
    /\ ret[2] # agents

C28_WitnessGet ==
    /\ ret # <<>>
    /\ ret[1] = "GetAgent"
    /\ ret[3] # 0

(* The task queue *)

\* C29: for a task that is in the store with status pending, ClaimTask by an
\* agent succeeds and assigns it; UpdateTaskProgress to in_progress succeeds
\* on a stored task; and once CompleteTask has run on a stored task, GetTask
\* reads it back without error, with status completed and a completion time
\* that is not nil.
C29_TaskLifecycle ==
    [][\A id \in TaskIDs :
         /\ \A agent \in TaskAgents :
              (/\ ClaimTask(id, agent)
               /\ tasks[id].present
               /\ tasks[id].status = "pending")
                => /\ ret'[3] = ""
                   /\ getTask(tasks', id)[1].Status = "claimed"
                   /\ getTask(tasks', id)[1].AssignedTo = agent
         /\ \A note \in TaskNotes :
              (UpdateTaskProgress(id, "in_progress", note) /\ tasks[id].present)
                => /\ ret'[3] = ""
                   /\ getTask(tasks', id)[1].Status = "in_progress"
         /\ \A sum \in TaskSummaries :
              (CompleteTask(id, sum) /\ tasks[id].present)
                => /\ ret'[3] = ""
                   /\ getTask(tasks', id)[2] = ""
                   /\ getTask(tasks', id)[1].Status = "completed"
                   /\ getTask(tasks', id)[1].CompletedAt # "nil"]_vars

C29_Witness ==
    /\ Len(ret) = 4
    /\ ret[1] = "GetTask"
    /\ ret[3] = ""
    /\ ret[4] = [Status |-> "completed", AssignedTo |-> "task-agent",
                 Progress |-> "Working on it",
                 Summary |-> "Task completed successfully",
                 CompletedAt |-> "set"]

(* Start-up and shutdown of a Bridge under concurrency *)

\* C31: "connected" is the first status event a Bridge publishes, and once a
\* later status (working, idle, error, disconnected) has been recorded the
\* status never returns to "connected", however Start() interleaves with the
\* reader loops it launched.
C31_ConnectedFirst ==
    [][/\ published'[B] # <<>> => published'[B][1][1] = "connected"
       /\ status'[B] = "connected" => status[B] \in {"starting", "connected"}]_vars

\* C32: when two Stop() calls run concurrently on one Bridge, the stop
\* channel is closed once: no call closes it a second time, one call tears
\* the Bridge down and the other returns without doing anything.
C32_StopClosedOnce ==
    /\ NoPanic
    /\ (\A c \in Stoppers : stopperPc[c] = "returned")
         => /\ closes[B] = 1
            /\ StopPublishes(B) = 1

(* Shutdown paths of StopAgent and of a Bridge *)

\* C33: the exit command StopAgent sends through the Bridge after
\* Bridge.Stop() has returned is written to the subprocess stdin, in addition
\* to the one Bridge.Stop() wrote.
C33_ExplicitQuitWritten ==
    [][\A id \in IDs :
         StopAgentSendQuit(id)
           => stdinLog'[id] = Append(stdinLog[id], "/quit")]_vars

\* The "disconnected" status events delivered for Bridge id, whoever
\* published them.
Disconnects(id) ==
    Cardinality({i \in DOMAIN published[id] :
                    published[id][i][1] = "disconnected"})

\* C34: over the lifetime of a Bridge at most one "disconnected" status
\* event is published, whether Stop(), the end of the stdout reader, or both
\* report the closure.
C34_OneDisconnected == Disconnects(B) <= 1

(* Teardown of an agent by the Supervisor *)

\* StopAgent has called Bridge.Stop() for the agent (line 484).
StoppedByStopAgent(id) == stopPc[id] \notin {"idle", "removed"}

\* C35: the Supervisor calls Bridge.Stop() on an agent's Bridge at most once:
\* once by the StopAgent call that found the agent, or once by crash
\* handling, never by both and never twice.
C35_OneBridgeStop ==
    \A id \in IDs :
        /\ stopCalls[id] <= 1
        /\ ~(StoppedByStopAgent(id) /\ ConfirmedCrashed(id))
        /\ stopCalls[id] = 1 <=> (StoppedByStopAgent(id) \/ ConfirmedCrashed(id))

C35_Witness ==
    \E i, j \in IDs :
        /\ stopCalls[i] = 1 /\ StoppedByStopAgent(i) /\ stopBy[i] = "all"
        /\ stopCalls[j] = 1 /\ removedBy[j] = "crash"

(* The status snapshot and the status events *)

\* No goroutine of the Bridge is in the middle of a status update.
Quiescent == \A t \in Threads : Idle(t)

\* C36: whenever the Bridge is quiescent, the (status, task) pair GetStatus()
\* returns is the pair of the status event published last, for every
\* interleaving of the stdout reader, the stderr reader and the command
\* handler.
C36_StatusIsLastEvent ==
    Quiescent => GetStatusPair(B) = published[B][Len(published[B])]

\* C37: once StopAgent has found an agent, the agent is out of the live set
\* and stays out, whatever the call returns: also after the error of a failed
\* forced kill it is not tracked, not inserted again and not examined by the
\* liveness poller.
C37_StoppedStaysRemoved ==
    \A id \in IDs :
        stopPc[id] # "idle"
          => /\ id \notin agents
             /\ id \notin toCheck
             /\ cur # id
             /\ removedBy[id] = "stop"
             /\ crashCalls[id] = 0

C37_Witness ==
    \E id \in IDs :
        /\ stopPc[id] = "err"
        /\ id \notin agents
        /\ monitorPc = "scan"

(* Locks *)

\* A caller is blocked on s.mu: StopAll at its snapshot (line 556), or one of
\* its tasks in StopAgent (line 472).
WaitsForLock == mu # "free" /\ (stopAllPc = "snap" \/ allPending # {})

C39_SecondStopAllReturns == all2Pc # "panicked"

(* Claiming a task *)
\* C40: ClaimTask succeeds only on a stored task whose status is pending; the
\* task is then assigned to the caller with status claimed, and nothing else
\* of the store changes. Every other call (a task no longer pending, so also
\* every later claim of the same task by another agent, or an unknown task)
\* returns an error and leaves the store as it was. Hence of the ClaimTask
\* calls racing for one pending task exactly one succeeds.
C40_ClaimOnlyPending ==
    [][\A id \in TaskIDs, agent \in TaskAgents :
         ClaimTask(id, agent) =>
           IF tasks[id].present /\ tasks[id].status = "pending"
           THEN /\ ret'[3] = ""
                /\ tasks'[id].status = "claimed"
                /\ tasks'[id].assigned_to = agent
                /\ tasks' = [tasks EXCEPT ![id].status = "claimed",
                                          ![id].assigned_to = agent]
                /\ \A other \in TaskAgents :
                     claimError(tasks', id) # "" /\ claimTask(tasks', id, other) = tasks'
           ELSE /\ ret'[3] # ""
                /\ tasks' = tasks]_vars

\* A claim has just failed on a task that an agent had claimed before.
C40_Witness ==
    /\ Len(ret) = 3
    /\ ret[1] = "ClaimTask"
    /\ ret[3] # ""
    /\ tasks[ret[2]].present
    /\ tasks[ret[2]].status = "claimed"
    /\ tasks[ret[2]].assigned_to \in TaskAgents

====
